---- MODULE Spec2Model ----
(***************************************************************************)
(* A model of the Aseprite previewer: the binary reader AseReader          *)
(* (src/public/ase-reader.js) and the canvas renderer AseCanvasRenderer    *)
(* (src/electron/preload.js), the FileMonitor of the main process          *)
(* (src/electron/file-monitor.js, src/unnamed/part_000) and the            *)
(* UnifiedFileMonitor of the renderer (src/public/ase-reader.js).          *)
(*                                                                         *)
(* SpecParser   : one AseReader parsing one byte buffer, chunk by chunk.   *)
(* SpecRenderer : one AseCanvasRenderer driven by its public methods.      *)
(* SpecMonitor  : one FileMonitor, its timers and the file it watches.     *)
(* SpecUnified  : one UnifiedFileMonitor and the calls made on it.         *)
(* SpecFrames   : the renderer stepping through frames and documents.      *)
(* SpecMain     : the FileMonitor called by the open-file handler of main. *)
(* SpecLauncher : the launcher (src/start.js) starting server and Electron.*)
(***************************************************************************)
EXTENDS Integers, Sequences, FiniteSets, TLC

VARIABLES
    buf,              \* AseReader: the bytes behind this._dv (never written)
    reader,           \* AseReader: the fields of the object
    parse,            \* AseReader: the activation of parse()/readFrame()
    aseData,          \* AseCanvasRenderer.aseData
    currentFrame,     \* AseCanvasRenderer.currentFrame
    layerVisibility,  \* AseCanvasRenderer.layerVisibility (a Map)
    lastRenderRecent, \* Date.now() - lastRenderTime < 100
    canvas,           \* what the main canvas shows: the blits since the last clear
    render,           \* the activation of renderFrame()/writeCel()/getCelData()
    monitor,          \* FileMonitor: the fields of the object
    node,             \* the files, watchers, timers and queued continuations
    observed,         \* the events and messages of the last step, and tallies
    unified,          \* UnifiedFileMonitor: its fields and the calls under way
    launcher          \* start.js: where main() is, and the processes it spawned

parserVars == <<buf, reader, parse>>
rendererVars == <<aseData, currentFrame, layerVisibility, lastRenderRecent, canvas, render>>
watchVars == <<monitor, node, observed, unified, launcher>>
vars == <<buf, reader, parse, aseData, currentFrame, layerVisibility,
          lastRenderRecent, canvas, render, monitor, node, observed, unified,
          launcher>>

(***************************************************************************)
(* Bounds of the model.                                                    *)
(***************************************************************************)
MaxItems == 3       \* frame headers and chunks that follow the file header
MaxFrames == 2      \* largest frame count a header declares / a document holds
MaxTime == 2        \* latest modification time a file gets
MaxCalls == 2       \* calls of one monitor under way at once
MaxHandles == 2     \* fs watchers (and timers of a kind) live at once
MaxTimeouts == 1    \* debounce timeouts pending at once

(***************************************************************************)
(* ByteCursor: DataView reads.  A read outside the buffer throws.          *)
(***************************************************************************)
InBounds(b, o, n) == o >= 0 /\ o + n <= Len(b)

getUint8(b, o) == b[o + 1]

getUint16(b, o) == b[o + 1] + 256 * b[o + 2]

getInt16(b, o) ==
    IF getUint16(b, o) >= 32768 THEN getUint16(b, o) - 65536 ELSE getUint16(b, o)

\* Every value from Huge up stands for itself as Huge: it is larger than any
\* buffer, and the arithmetic on it stays within the checker's integers.
Huge == 1073741824

getUint32(b, o) ==
    IF b[o + 4] >= 64 THEN Huge
    ELSE b[o + 1] + 256 * b[o + 2] + 65536 * b[o + 3] + 16777216 * b[o + 4]

\* readNextRawBytes: the n bytes at o (n >= 0, in bounds)
RawBytes(b, o, n) == [k \in 1..n |-> b[o + k]]

(***************************************************************************)
(* The files parsed: a 128-byte header followed by up to MaxItems frame    *)
(* headers and chunks, laid out as readHeader/readFrame/readChunk read     *)
(* them.                                                                   *)
(***************************************************************************)
LE16(v) == <<v % 256, (v \div 256) % 256>>

LE32(v) == <<v % 256, (v \div 256) % 256, (v \div 65536) % 256, (v \div 16777216) % 256>>

Zeros(n) == [k \in 1..n |-> 0]

HeaderBytes(nf) ==
    LE32(128) \o LE16(42464) \o LE16(nf) \o LE16(2) \o LE16(2) \o LE16(32)
        \o Zeros(18) \o LE16(0) \o <<1, 1>> \o Zeros(92)

FrameHeaderBytes(nChunks) ==
    LE32(16) \o LE16(61946) \o LE16(nChunks) \o LE16(100) \o Zeros(2) \o LE32(nChunks)

ChunkBytes(size, type, payload) == LE32(size) \o LE16(type) \o payload

LayerPayload(flags) ==
    LE16(flags) \o LE16(0) \o LE16(0) \o Zeros(4) \o LE16(0) \o <<255>> \o Zeros(3) \o LE16(0)

CelPayloadHead(layerIndex, celType) ==
    LE16(layerIndex) \o LE16(1) \o LE16(65535) \o <<255>> \o LE16(celType) \o Zeros(7)

ItemKinds ==
    {"FH0", "FH1", "FH2", "Layer", "LayerExt", "Cel", "Linked",
     "Profile", "ProfileICC", "UserData", "Tileset"}

ItemBytes(kind) ==
    CASE kind = "FH0" -> FrameHeaderBytes(0)
      [] kind = "FH1" -> FrameHeaderBytes(1)
      [] kind = "FH2" -> FrameHeaderBytes(2)
      \* a layer chunk of exactly the bytes readLayerChunk reads
      [] kind = "Layer" -> ChunkBytes(24, 8196, LayerPayload(1))
      \* a layer chunk that declares 4 bytes more (a tileset index)
      [] kind = "LayerExt" -> ChunkBytes(28, 8196, LayerPayload(3) \o LE32(0))
      \* a raw 1x1 cel of 4 bytes
      [] kind = "Cel" ->
            ChunkBytes(30, 8197, CelPayloadHead(0, 0) \o LE16(1) \o LE16(1) \o <<9, 8, 7, 255>>)
      [] kind = "Linked" -> ChunkBytes(24, 8197, CelPayloadHead(0, 1) \o LE16(0))
      \* a colour profile chunk of exactly the bytes readColorProfileChunk reads
      [] kind = "Profile" -> ChunkBytes(22, 8199, LE16(1) \o LE16(0) \o Zeros(4) \o Zeros(8))
      \* a colour profile chunk with an embedded ICC profile (length, data)
      [] kind = "ProfileICC" ->
            ChunkBytes(28, 8199, LE16(2) \o LE16(0) \o Zeros(4) \o Zeros(8) \o LE32(2) \o <<5, 5>>)
      \* user data, 0x2020: one of the types readFrame lists to skip
      [] kind = "UserData" -> ChunkBytes(10, 8224, <<4, 0, 0, 0>>)
      \* tileset, 0x2023: a type readFrame does not know
      [] kind = "Tileset" -> ChunkBytes(10, 8227, <<0, 0, 0, 0>>)

RECURSIVE Flatten(_)
Flatten(items) ==
    IF items = <<>> THEN <<>> ELSE ItemBytes(Head(items)) \o Flatten(Tail(items))

ItemSeqs == UNION {[1..n -> ItemKinds] : n \in 0..MaxItems}

\* one palette entry: flags, RGBA, and the name "A" when bit 0 of flags is set
PaletteEntry(flag, rgba) ==
    LE16(flag) \o rgba \o (IF flag % 2 = 1 THEN LE16(1) \o <<65>> ELSE <<>>)

\* a palette chunk, 0x2019, of two entries; the first has the given flags
PaletteChunkBytes(flag) ==
    LET entries == PaletteEntry(flag, <<10, 20, 30, 255>>) \o PaletteEntry(0, <<1, 0, 0, 4>>)
    IN ChunkBytes(26 + Len(entries), 8217,
                  LE32(2) \o LE32(0) \o LE32(1) \o Zeros(8) \o entries)

\* a tags chunk, 0x2018, of one tag with the given loop direction byte
TagsChunkBytes(direction) ==
    ChunkBytes(35, 8216,
               LE16(1) \o Zeros(8) \o LE16(0) \o LE16(1) \o <<direction>> \o Zeros(8)
                   \o <<255, 0, 0>> \o <<0>> \o LE16(0))

\* a compressed 1x1 cel, celType 2, with a payload of 4 bytes
CompressedCelBytes ==
    ChunkBytes(30, 8197, CelPayloadHead(0, 2) \o LE16(1) \o LE16(1) \o <<120, 156, 99, 0>>)

\* a cel of celType 3 (a tilemap) laid out as readCelChunk reads it
OtherCelBytes ==
    ChunkBytes(30, 8197, CelPayloadHead(1, 3) \o LE16(1) \o LE16(1) \o <<6, 6, 6, 6>>)

\* a linked cel chunk that declares 4 bytes more than readCelChunk reads
LongLinkedCelBytes == ChunkBytes(28, 8197, CelPayloadHead(0, 1) \o LE16(0) \o Zeros(4))

ExtraChunks ==
    {PaletteChunkBytes(flag) : flag \in {0, 1, 2, 3}}
        \cup {TagsChunkBytes(direction) : direction \in {0, 1, 2, 3, 255}}
        \cup {CompressedCelBytes, OtherCelBytes, LongLinkedCelBytes}

\* files of one frame: one of the chunks above, then one more chunk
ExtraFiles ==
    {HeaderBytes(1) \o FrameHeaderBytes(2) \o c \o ItemBytes(kind) :
        c \in ExtraChunks, kind \in {"Layer", "Cel", "UserData"}}

\* a file cut at every place: in the header, a frame header, a chunk
TruncatedFiles ==
    LET whole == HeaderBytes(1) \o FrameHeaderBytes(3) \o ItemBytes("Layer")
                    \o ItemBytes("Cel") \o ItemBytes("UserData")
    IN {SubSeq(whole, 1, n) : n \in 0..(Len(whole) - 1)}
          \cup {SubSeq(HeaderBytes(0), 1, n) : n \in {20, 36, 100}}

Files ==
    {HeaderBytes(nf) \o Flatten(items) : nf \in 0..MaxFrames, items \in ItemSeqs}
        \cup ExtraFiles \cup TruncatedFiles

(***************************************************************************)
(* Chunk decoders.  Each takes the buffer and the cursor and gives         *)
(* [ok, off, ...]: ok is FALSE when a read throws, off is the cursor the   *)
(* decoder leaves.                                                         *)
(***************************************************************************)
Failed == [ok |-> FALSE, off |-> 0]

readHeader(b) ==
    IF ~InBounds(b, 0, 36) THEN Failed
    ELSE [ok |-> TRUE, off |-> 128,
          fileSize |-> getUint32(b, 0),
          numFrames |-> getUint16(b, 6),
          width |-> getUint16(b, 8),
          height |-> getUint16(b, 10),
          colorDepth |-> getUint16(b, 12),
          numColors |-> getUint16(b, 32)]

readChunk(b, o) ==
    IF ~InBounds(b, o, 6) THEN Failed
    ELSE [ok |-> TRUE, off |-> o + 6, chunkSize |-> getUint32(b, o), type |-> getUint16(b, o + 4)]

readColorProfileChunk(b, o) ==
    IF ~InBounds(b, o, 8) THEN Failed
    ELSE [ok |-> TRUE, off |-> o + 16,
          colorProfile |-> [present |-> TRUE, type |-> getUint16(b, o), flag |-> getUint16(b, o + 2)]]

readLayerChunk(b, o) ==
    IF ~InBounds(b, o, 18) THEN Failed
    ELSE IF ~InBounds(b, o + 18, getUint16(b, o + 16)) THEN Failed
    ELSE [ok |-> TRUE, off |-> o + 18 + getUint16(b, o + 16),
          layer |-> [flags |-> [t |-> "number", v |-> getUint16(b, o)],
                     type |-> getUint16(b, o + 2),
                     layerChildLevel |-> getUint16(b, o + 4),
                     blendMode |-> getUint16(b, o + 10),
                     opacity |-> getUint8(b, o + 12),
                     name |-> RawBytes(b, o + 18, getUint16(b, o + 16))]]

\* What pako.inflate may do with a payload: throw, or return some bytes.
InflateOutcomes ==
    {[ok |-> FALSE, data |-> <<>>], [ok |-> TRUE, data |-> <<>>],
     [ok |-> TRUE, data |-> <<1, 2, 3, 4>>]}

\* a fallback that drops the payload when pako.inflate throws
InflateOrNothing(buff, inflate) == IF inflate.ok THEN inflate.data ELSE <<>>

\* rawCel of a celType 2 cel: what pako.inflate returns, buff when it throws
\* (an absent pako library gives the same as a throw)
InflateOrRaw(buff, inflate) == IF inflate.ok THEN inflate.data ELSE buff

\* the bytes readCelChunk reads after w and h: chunkSize - 26
CelPayloadLength(chunkSize) == chunkSize - 26

\* inflate: the outcome of pako.inflate, used when celType = 2
readCelChunk(b, o, chunkSize, inflate) ==
    IF ~InBounds(b, o, 9) THEN Failed
    ELSE LET layerIndex == getUint16(b, o)
             celType == getUint16(b, o + 7)
             head == [layerIndex |-> layerIndex, xpos |-> getInt16(b, o + 2),
                      ypos |-> getInt16(b, o + 4), opacity |-> getUint8(b, o + 6),
                      celType |-> celType]
         IN IF celType # 1
            THEN IF ~InBounds(b, o + 16, 4) \/ CelPayloadLength(chunkSize) < 0
                    \/ ~InBounds(b, o + 20, CelPayloadLength(chunkSize))
                 THEN Failed
                 ELSE LET buff == RawBytes(b, o + 20, CelPayloadLength(chunkSize))
                          rawCel == IF celType = 2
                                    THEN InflateOrRaw(buff, inflate)
                                    ELSE buff
                      IN [ok |-> TRUE, off |-> o + 20 + CelPayloadLength(chunkSize),
                          cel |-> head @@ [hasPixels |-> TRUE,
                                           w |-> getUint16(b, o + 16), h |-> getUint16(b, o + 18),
                                           \* celType other than 0 and 2 leaves rawCel undefined
                                           rawCelData |-> IF celType \in {0, 2} THEN rawCel ELSE <<>>,
                                           linkedFrame |-> -1]]
            ELSE IF ~InBounds(b, o + 16, 2) THEN Failed
                 ELSE [ok |-> TRUE, off |-> o + 18,
                       cel |-> head @@ [hasPixels |-> FALSE, w |-> 0, h |-> 0, rawCelData |-> <<>>,
                                        linkedFrame |-> getUint16(b, o + 16)]]

RECURSIVE readPaletteEntries(_, _, _, _)
readPaletteEntries(b, o, n, colors) ==
    IF n = 0 THEN [ok |-> TRUE, off |-> o, colors |-> colors]
    ELSE IF ~InBounds(b, o, 6) THEN Failed
    ELSE LET flag == getUint16(b, o)
             color == [red |-> getUint8(b, o + 2), green |-> getUint8(b, o + 3),
                       blue |-> getUint8(b, o + 4), alpha |-> getUint8(b, o + 5),
                       named |-> flag = 1]
         IN IF flag = 1
            THEN IF ~InBounds(b, o + 6, 2) THEN Failed
                 ELSE IF ~InBounds(b, o + 8, getUint16(b, o + 6)) THEN Failed
                 ELSE readPaletteEntries(b, o + 8 + getUint16(b, o + 6), n - 1,
                                         Append(colors, color))
            ELSE readPaletteEntries(b, o + 6, n - 1, Append(colors, color))

readPaletteChunk(b, o) ==
    IF ~InBounds(b, o, 12) THEN Failed
    ELSE LET r == readPaletteEntries(b, o + 20, getUint32(b, o), <<>>)
         IN IF ~r.ok THEN Failed
            ELSE [ok |-> TRUE, off |-> r.off,
                  palette |-> [present |-> TRUE, paletteSize |-> getUint32(b, o),
                               colors |-> r.colors]]

\* loops[loopsInd] of readFrameTagsChunk
animDirection(loopsInd) ==
    CASE loopsInd = 0 -> "Forward"
      [] loopsInd = 1 -> "Reverse"
      [] loopsInd = 2 -> "Ping-pong"
      [] OTHER -> "undefined"

RECURSIVE readTags(_, _, _, _)
readTags(b, o, n, tags) ==
    IF n = 0 THEN [ok |-> TRUE, off |-> o, tags |-> tags]
    ELSE IF ~InBounds(b, o, 5) \/ ~InBounds(b, o + 13, 3) \/ ~InBounds(b, o + 17, 2) THEN Failed
    ELSE IF ~InBounds(b, o + 19, getUint16(b, o + 17)) THEN Failed
    ELSE readTags(b, o + 19 + getUint16(b, o + 17), n - 1,
                  Append(tags, [from |-> getUint16(b, o), to |-> getUint16(b, o + 2),
                                animDirection |-> animDirection(getUint8(b, o + 4)),
                                name |-> RawBytes(b, o + 19, getUint16(b, o + 17))]))

readFrameTagsChunk(b, o, tags) ==
    IF ~InBounds(b, o, 2) THEN Failed
    ELSE readTags(b, o + 10, getUint16(b, o), tags)

(***************************************************************************)
(* AseReader.parse(), one step per readHeader / frame header / chunk.      *)
(***************************************************************************)
\* inflateOk: FALSE after a celType 2 cel whose inflate threw
NoChunk == [start |-> 0, chunkSize |-> 0, type |-> -1, inflateOk |-> TRUE]

NewReader ==
    [offset |-> 0, fileSize |-> 0, numFrames |-> 0, width |-> 0, height |-> 0,
     colorDepth |-> 0, numColors |-> 0, frames |-> <<>>, layers |-> <<>>, tags |-> <<>>,
     palette |-> [present |-> FALSE, paletteSize |-> 0, colors |-> <<>>],
     colorProfile |-> [present |-> FALSE, type |-> 0, flag |-> 0]]

NewParse ==
    [pc |-> "start", i |-> 0, bytesInFrame |-> 0, frameDuration |-> 0, newChunk |-> 0,
     ci |-> 0, cels |-> <<>>, chunk |-> NoChunk]

\* the chunk types readFrame lists with a skip
SkippedTypes == {4, 8198, 17, 8214, 8215, 8224, 8226}

\* the chunk types readFrame decodes: layer, cel, colour profile, tags, palette
DecodedTypes == {8196, 8197, 8199, 8216, 8217}

Throw == parse' = [parse EXCEPT !.pc = "error"] /\ UNCHANGED reader

\* parse(): const numFrames = this.readHeader()
ReadHeader ==
    /\ parse.pc = "start"
    /\ LET r == readHeader(buf)
       IN IF ~r.ok THEN Throw
          ELSE /\ reader' = [reader EXCEPT !.offset = r.off, !.fileSize = r.fileSize,
                                           !.numFrames = r.numFrames, !.width = r.width,
                                           !.height = r.height, !.colorDepth = r.colorDepth,
                                           !.numColors = r.numColors]
               /\ parse' = [parse EXCEPT !.pc = "loop"]
    /\ UNCHANGED <<buf, rendererVars, watchVars>>

\* a loop test that stops one frame early
ParseLoopStopsEarly(i, numFrames) == i + 1 < numFrames

\* the loop test of parse(): for (let i = 0; i < numFrames; i++)
ParseLoopContinues(i, numFrames) == i < numFrames

\* readFrame(), up to its chunk loop
ReadFrameHeader ==
    /\ parse.pc = "loop"
    /\ ParseLoopContinues(parse.i, reader.numFrames)
    /\ LET o == reader.offset
       IN IF ~InBounds(buf, o, 4) \/ ~InBounds(buf, o + 6, 4) \/ ~InBounds(buf, o + 12, 4)
          THEN Throw
          ELSE /\ reader' = [reader EXCEPT !.offset = o + 16]
               /\ parse' = [parse EXCEPT !.pc = "chunks",
                                         !.bytesInFrame = getUint32(buf, o),
                                         !.frameDuration = getUint16(buf, o + 8),
                                         !.newChunk = getUint32(buf, o + 12),
                                         !.ci = 0, !.cels = <<>>]
    /\ UNCHANGED <<buf, rendererVars, watchVars>>

\* the cursor after the switch of readFrame, for a chunk that is not decoded
SkipChunk(type, off, chunkSize) ==
    IF type \in SkippedTypes THEN off + (chunkSize - 6) ELSE off

\* one turn of the chunk loop of readFrame
ReadChunk ==
    /\ parse.pc = "chunks"
    /\ parse.ci < parse.newChunk
    /\ LET c == readChunk(buf, reader.offset)
           at == [start |-> reader.offset, chunkSize |-> c.chunkSize, type |-> c.type,
                  inflateOk |-> TRUE]
           next == [parse EXCEPT !.ci = @ + 1, !.chunk = at]
       IN IF ~c.ok THEN Throw
          ELSE CASE c.type = 8196 ->
                      LET r == readLayerChunk(buf, c.off)
                      IN IF ~r.ok THEN Throw
                         ELSE /\ reader' = [reader EXCEPT !.offset = r.off,
                                                          !.layers = Append(@, r.layer)]
                              /\ parse' = next
                 [] c.type = 8197 ->
                      \E inflate \in InflateOutcomes :
                         LET r == readCelChunk(buf, c.off, c.chunkSize, inflate)
                         IN IF ~r.ok THEN Throw
                            ELSE /\ reader' = [reader EXCEPT !.offset = r.off]
                                 /\ parse' = [next EXCEPT
                                                !.cels = Append(@, r.cel),
                                                !.chunk.inflateOk =
                                                    (r.cel.celType # 2 \/ inflate.ok)]
                 [] c.type = 8199 ->
                      LET r == readColorProfileChunk(buf, c.off)
                      IN IF ~r.ok THEN Throw
                         ELSE /\ reader' = [reader EXCEPT !.offset = r.off,
                                                          !.colorProfile = r.colorProfile]
                              /\ parse' = next
                 [] c.type = 8216 ->
                      LET r == readFrameTagsChunk(buf, c.off, reader.tags)
                      IN IF ~r.ok THEN Throw
                         ELSE /\ reader' = [reader EXCEPT !.offset = r.off, !.tags = r.tags]
                              /\ parse' = next
                 [] c.type = 8217 ->
                      LET r == readPaletteChunk(buf, c.off)
                      IN IF ~r.ok THEN Throw
                         ELSE /\ reader' = [reader EXCEPT !.offset = r.off,
                                                          !.palette = r.palette]
                              /\ parse' = next
                 [] OTHER ->
                      /\ reader' = [reader EXCEPT
                                       !.offset = SkipChunk(c.type, c.off, c.chunkSize)]
                      /\ parse' = next
    /\ UNCHANGED <<buf, rendererVars, watchVars>>

\* the end of readFrame: this.frames.push({...}), and i++ of parse()
ReadFrameEnd ==
    /\ parse.pc = "chunks"
    /\ parse.ci >= parse.newChunk
    /\ reader' = [reader EXCEPT !.frames =
                     Append(@, [bytesInFrame |-> parse.bytesInFrame,
                                frameDuration |-> parse.frameDuration,
                                numChunks |-> parse.newChunk,
                                cels |-> parse.cels])]
    /\ parse' = [parse EXCEPT !.pc = "loop", !.i = @ + 1]
    /\ UNCHANGED <<buf, rendererVars, watchVars>>

\* parse() returns
ParseReturn ==
    /\ parse.pc = "loop"
    /\ ~ParseLoopContinues(parse.i, reader.numFrames)
    /\ parse' = [parse EXCEPT !.pc = "done"]
    /\ UNCHANGED <<buf, reader, rendererVars, watchVars>>

(***************************************************************************)
(* The documents the renderer is given: what AseReader.parse() builds      *)
(* (numeric layer flags) and what the main process sends after parsing     *)
(* with ase-parser (layer flags as an object with a visible field).        *)
(***************************************************************************)
NumberFlags(v) == [t |-> "number", v |-> v]
ObjectFlags(visible) == [t |-> "object", v |-> IF visible THEN 1 ELSE 0]
UnknownFlags == [t |-> "undefined", v |-> 0]

MakeLayer(flags) ==
    [flags |-> flags, type |-> 0, layerChildLevel |-> 0, blendMode |-> 0, opacity |-> 255,
     name |-> <<>>]

\* a cel with its own 1x1 RGBA pixel; the first byte tells the cels apart
DirectCel(layerIndex, f, k) ==
    [layerIndex |-> layerIndex, xpos |-> k - 1, ypos |-> f, opacity |-> 255, celType |-> 0,
     hasPixels |-> TRUE, w |-> 1, h |-> 1, rawCelData |-> <<16 * f + k, 0, 0, 255>>,
     linkedFrame |-> -1]

LinkedCel(layerIndex, k, linkedFrame) ==
    [layerIndex |-> layerIndex, xpos |-> k - 1, ypos |-> 0, opacity |-> 255, celType |-> 1,
     hasPixels |-> FALSE, w |-> 0, h |-> 0, rawCelData |-> <<>>, linkedFrame |-> linkedFrame]

\* A frame is written as a sequence of <<layerIndex, link>>: link = -1 is a
\* direct cel, any other link a linked cel pointing at that frame.
MakeFrame(shape, f) ==
    [bytesInFrame |-> 0, frameDuration |-> 100, numChunks |-> Len(shape),
     cels |-> [k \in 1..Len(shape) |->
                 IF shape[k][2] = -1 THEN DirectCel(shape[k][1], f, k)
                 ELSE LinkedCel(shape[k][1], k, shape[k][2])]]

\* this.palette of a file without palette chunk
NoPalette == [present |-> FALSE, colors |-> <<>>]

MakeDocument(flagSeq, shapes) ==
    [loaded |-> TRUE, numFrames |-> Len(shapes), colorDepth |-> 32, palette |-> NoPalette,
     layers |-> [k \in 1..Len(flagSeq) |-> MakeLayer(flagSeq[k])],
     frames |-> [f \in 1..Len(shapes) |-> MakeFrame(shapes[f], f - 1)]]

\* a direct cel of given place, opacity, size and bytes
PixelCel(layerIndex, xpos, ypos, opacity, w, h, rawCelData) ==
    [layerIndex |-> layerIndex, xpos |-> xpos, ypos |-> ypos, opacity |-> opacity,
     celType |-> 0, hasPixels |-> TRUE, w |-> w, h |-> h, rawCelData |-> rawCelData,
     linkedFrame |-> -1]

Color(red, green, blue, alpha) == [red |-> red, green |-> green, blue |-> blue, alpha |-> alpha]

\* a palette of six colours; entry 5 is (10, 20, 30, 255)
SixColors ==
    [present |-> TRUE,
     colors |-> <<Color(0, 0, 0, 0), Color(255, 0, 0, 255), Color(0, 255, 0, 255),
                  Color(0, 0, 255, 255), Color(9, 9, 9, 128), Color(10, 20, 30, 255)>>]

\* a document of one frame with the given colour depth, palette and cels
PixelDocument(colorDepth, palette, flagSeq, cels) ==
    [loaded |-> TRUE, numFrames |-> 1, colorDepth |-> colorDepth, palette |-> palette,
     layers |-> [k \in 1..Len(flagSeq) |-> MakeLayer(flagSeq[k])],
     frames |-> <<[bytesInFrame |-> 0, frameDuration |-> 100, numChunks |-> Len(cels),
                   cels |-> cels]>>]

PixelDocuments ==
    { \* depth 32: two cels that overlap at (1, 0), the later one nearly transparent
      PixelDocument(32, NoPalette, <<NumberFlags(1), NumberFlags(1)>>,
                    <<PixelCel(0, 0, 0, 255, 2, 1, <<1, 2, 3, 255, 4, 5, 6, 255>>),
                      PixelCel(1, 1, 0, 10, 1, 1, <<7, 8, 9, 128>>)>>),
      \* depth 32: a cel with 5 of its 8 bytes, a cel with 6 bytes for 4
      PixelDocument(32, NoPalette, <<NumberFlags(1), NumberFlags(1)>>,
                    <<PixelCel(0, 0, 0, 255, 2, 1, <<1, 2, 3, 255, 4>>),
                      PixelCel(1, 0, 1, 255, 1, 1, <<7, 8, 9, 128, 5, 5>>)>>),
      \* depth 16: a cel with 3 of its 4 bytes, a cel with all of them
      PixelDocument(16, NoPalette, <<NumberFlags(1), NumberFlags(1)>>,
                    <<PixelCel(0, 0, 0, 255, 2, 1, <<7, 200, 9>>),
                      PixelCel(1, 0, 1, 255, 2, 1, <<0, 255, 90, 3>>)>>),
      \* depth 8 with a palette: entry 5, an index outside the palette, entry 0;
      \* a cel with 1 of its 2 bytes
      PixelDocument(8, SixColors, <<NumberFlags(1), NumberFlags(1)>>,
                    <<PixelCel(0, 0, 0, 255, 3, 1, <<5, 6, 0>>),
                      PixelCel(1, 0, 1, 255, 2, 1, <<4>>)>>),
      \* depth 8 without a palette
      PixelDocument(8, NoPalette, <<NumberFlags(1)>>,
                    <<PixelCel(0, 0, 0, 255, 2, 1, <<5, 1>>)>>) }

Documents ==
    PixelDocuments \cup
    { \* frame 1 holds only a linked cel of layer 1, frame 0 cels of layers 0 and 1
      MakeDocument(<<NumberFlags(1), NumberFlags(1)>>,
                   << <<<<0, -1>>, <<1, -1>>>>, <<<<1, 0>>>> >>),
      \* linked cels at the position of their target; layer 0 hidden by its flags
      MakeDocument(<<NumberFlags(0), NumberFlags(3)>>,
                   << <<<<0, -1>>, <<1, -1>>>>, <<<<0, 0>>, <<1, 0>>>> >>),
      \* a cycle: frame 0 links to frame 1 and frame 1 to frame 0
      MakeDocument(<<NumberFlags(1), NumberFlags(1)>>,
                   << <<<<0, 1>>>>, <<<<0, 0>>>> >>),
      \* a cel linked to its own frame
      MakeDocument(<<NumberFlags(1)>>, << <<<<0, 0>>>> >>),
      \* object and missing flags; a cel of layer 2, which does not exist
      MakeDocument(<<ObjectFlags(TRUE), UnknownFlags>>,
                   << <<<<0, -1>>, <<1, -1>>, <<2, -1>>>> >>),
      \* a chain of two links: frame 2 -> frame 1 -> frame 0
      MakeDocument(<<ObjectFlags(FALSE), NumberFlags(2)>>,
                   << <<<<0, -1>>, <<1, -1>>>>, <<<<0, -1>>, <<1, 0>>>>,
                      <<<<0, 1>>, <<1, 1>>>> >>),
      \* a link to a frame that has no cel at that position
      MakeDocument(<<NumberFlags(1), NumberFlags(1)>>, << <<>>, <<<<0, 0>>>> >>),
      \* a link to a frame that does not exist
      MakeDocument(<<NumberFlags(1), NumberFlags(1)>>, << <<<<0, -1>>>>, <<<<0, 5>>>> >>),
      \* a link of layer 1 to its cel in frame 0, which stands at another position
      MakeDocument(<<NumberFlags(1), NumberFlags(1)>>,
                   << <<<<1, -1>>>>, <<<<0, -1>>, <<1, 0>>>> >>),
      \* no frames
      MakeDocument(<<NumberFlags(1)>>, <<>>),
      \* no layers
      MakeDocument(<<>>, << <<<<0, -1>>>> >>) }

\* the layer indexes the callers pass
LayerIndexArgs == {0, 1, 2}

\* the frame indexes the callers pass
FrameIndexArgs == {0, 1, 2, 3}

\* the hop counter of the model stops counting here
HopCap == 5

(***************************************************************************)
(* AseCanvasRenderer: the state after the constructor.                     *)
(***************************************************************************)
\* this.aseData = null
NullData ==
    [loaded |-> FALSE, numFrames |-> 0, colorDepth |-> 0, palette |-> NoPalette,
     layers |-> <<>>, frames |-> <<>>]

NoResolved == [numCel |-> -1, w |-> 0, h |-> 0, rawCelData |-> <<>>]

\* pc: idle, or inside renderFrame ("cels": the cel loop, "link": getCelData)
NoRender ==
    [pc |-> "idle", i |-> 0, lFrame |-> 0, hops |-> 0, threw |-> FALSE, resolved |-> NoResolved]

\* JavaScript indexes from 0: frames[f], cels[k], layers[i]
HasFrame(data, f) == data.loaded /\ f >= 0 /\ f < Len(data.frames)
FrameAt(data, f) == data.frames[f + 1]
HasLayer(data, i) == data.loaded /\ i >= 0 /\ i < Len(data.layers)
LayerAt(data, i) == data.layers[i + 1]

(***************************************************************************)
(* Layer visibility.                                                       *)
(***************************************************************************)
\* the visibility the flags of a layer give (the second half of isLayerVisible)
FlagsVisible(flags) ==
    CASE flags.t = "object" -> flags.v = 1             \* layer.flags.visible === true
      [] flags.t = "number" -> (flags.v % 2) = 1       \* (layer.flags & 0x01) === 1
      [] OTHER -> TRUE                                 \* unknown format: visible

\* an isLayerVisible that hides a cel whose layer does not exist
IsLayerVisibleHidingUnknown(data, overrides, layerIndex) ==
    IF ~HasLayer(data, layerIndex) THEN FALSE
    ELSE IF layerIndex \in DOMAIN overrides THEN overrides[layerIndex]
    ELSE FlagsVisible(LayerAt(data, layerIndex).flags)

\* an isLayerVisible that looks at the flags alone
IsLayerVisibleIgnoringOverrides(data, overrides, layerIndex) ==
    IF ~HasLayer(data, layerIndex) THEN TRUE
    ELSE FlagsVisible(LayerAt(data, layerIndex).flags)

IsLayerVisible(data, overrides, layerIndex) ==
    IF ~HasLayer(data, layerIndex) THEN TRUE
    ELSE IF layerIndex \in DOMAIN overrides THEN overrides[layerIndex]
    ELSE FlagsVisible(LayerAt(data, layerIndex).flags)

\* Map.set
MapSet(m, key, value) == [k \in DOMAIN m \cup {key} |-> IF k = key THEN value ELSE m[k]]

(***************************************************************************)
(* renderFrame.  The call itself (guards, clear) happens inside the        *)
(* handler that makes it; the cel loop then runs to its end, one cel or    *)
(* one link per step, before any other handler runs.                       *)
(***************************************************************************)
Idle == render.pc = "idle"

\* a renderFrame that does not clear the canvas
RenderFrameKeepingCanvas(data, cf, frameIndex) ==
    IF ~HasFrame(data, frameIndex) \/ lastRenderRecent
    THEN /\ currentFrame' = cf
         /\ render' = NoRender
         /\ UNCHANGED <<lastRenderRecent, canvas>>
    ELSE /\ lastRenderRecent' = TRUE
         /\ currentFrame' = frameIndex
         /\ canvas' = canvas
         /\ render' = [NoRender EXCEPT !.pc = "cels"]

\* renderFrame(frameIndex), called with data loaded and cf = this.currentFrame
RenderFrame(data, cf, frameIndex) ==
    IF ~HasFrame(data, frameIndex) \/ lastRenderRecent
    THEN /\ currentFrame' = cf
         /\ render' = NoRender
         /\ UNCHANGED <<lastRenderRecent, canvas>>
    ELSE /\ lastRenderRecent' = TRUE
         /\ currentFrame' = frameIndex
         /\ canvas' = <<>>
         /\ render' = [NoRender EXCEPT !.pc = "cels"]

\* tempCtx.createImageData(w, h): w * h transparent black pixels
createImageData(w, h) == Zeros(w * h * 4)

Min(a, b) == IF a < b THEN a ELSE b

\* a depth 32 decoder that copies only cels that have all their bytes
Decode32AllOrNothing(rawCelData, w, h) ==
    IF Len(rawCelData) >= w * h * 4
    THEN [k \in 1..(w * h * 4) |-> rawCelData[k]]
    ELSE createImageData(w, h)

\* colorDepth === 32: the bytes are copied, as many as there are and fit
Decode32(rawCelData, w, h) ==
    LET expectedLength == w * h * 4
        actualLength == Len(rawCelData)
    IN IF actualLength >= expectedLength
       THEN [k \in 1..expectedLength |-> rawCelData[k]]
       ELSE [k \in 1..expectedLength |->
                IF k <= Min(expectedLength, actualLength) THEN rawCelData[k] ELSE 0]

\* a grey pixel that loses its alpha
GrayPixelOpaque(value, alpha) == <<value, value, value, 255>>

\* colorDepth === 16: the four bytes written for (value, alpha)
GrayPixel(value, alpha) == <<value, value, value, alpha>>

Decode16(rawCelData, w, h) ==
    [k \in 1..(w * h * 4) |->
        LET dataIndex == ((k - 1) \div 4) * 2
        IN IF dataIndex + 1 < Len(rawCelData)
           THEN GrayPixel(rawCelData[dataIndex + 1], rawCelData[dataIndex + 2])[((k - 1) % 4) + 1]
           ELSE 0]

\* a palette lookup that counts the entries from 1
PaletteColorFromOne(palette, paletteIndex) ==
    IF palette.present /\ paletteIndex >= 1 /\ paletteIndex <= Len(palette.colors)
    THEN LET color == palette.colors[paletteIndex]
         IN <<color.red, color.green, color.blue, color.alpha>>
    ELSE <<0, 0, 0, 0>>

\* colorDepth === 8: palette.colors[paletteIndex], transparent when there is none
PaletteColor(palette, paletteIndex) ==
    IF palette.present /\ paletteIndex < Len(palette.colors)
    THEN LET color == palette.colors[paletteIndex + 1]
         IN <<color.red, color.green, color.blue, color.alpha>>
    ELSE <<0, 0, 0, 0>>

Decode8(palette, rawCelData, w, h) ==
    [k \in 1..(w * h * 4) |->
        LET i == (k - 1) \div 4
        IN IF i < Len(rawCelData)
           THEN PaletteColor(palette, rawCelData[i + 1])[((k - 1) % 4) + 1]
           ELSE 0]

\* the imageData writeCel fills for a cel of data: colorDepth || 32
DecodeCel(data, src) ==
    LET colorDepth == IF data.colorDepth = 0 THEN 32 ELSE data.colorDepth
    IN CASE colorDepth = 32 -> Decode32(src.rawCelData, src.w, src.h)
         [] colorDepth = 16 -> Decode16(src.rawCelData, src.w, src.h)
         [] colorDepth = 8 -> Decode8(data.palette, src.rawCelData, src.w, src.h)
         [] OTHER -> createImageData(src.w, src.h)

\* what writeCel draws: the cel's own position, the pixels of src
Blit(numCel, celData, src) ==
    [numCel |-> numCel, layerIndex |-> celData.layerIndex, xpos |-> celData.xpos,
     ypos |-> celData.ypos, w |-> src.w, h |-> src.h, rawCelData |-> src.rawCelData,
     data |-> DecodeCel(aseData, src)]

\* a writeCel that draws under what the canvas holds
DrawUnder(cv, numCel, celData, src) ==
    IF Len(src.rawCelData) = 0 \/ src.w <= 0 \/ src.h <= 0 THEN cv
    ELSE <<Blit(numCel, celData, src)>> \o cv

\* writeCel after cel is known: nothing is drawn without data or size
Draw(cv, numCel, celData, src) ==
    IF Len(src.rawCelData) = 0 \/ src.w <= 0 \/ src.h <= 0 THEN cv
    ELSE Append(cv, Blit(numCel, celData, src))

CurrentCels == FrameAt(aseData, currentFrame).cels

\* one turn of the cel loop of renderFrame, up to the call of getCelData
RenderCel ==
    /\ render.pc = "cels"
    /\ render.i < Len(CurrentCels)
    /\ LET celData == CurrentCels[render.i + 1]
       IN IF ~IsLayerVisible(aseData, layerVisibility, celData.layerIndex)
          THEN /\ render' = [render EXCEPT !.i = @ + 1]
               /\ UNCHANGED canvas
          ELSE IF celData.celType # 1
          THEN /\ canvas' = Draw(canvas, render.i, celData, celData)
               /\ render' = [render EXCEPT !.i = @ + 1]
          ELSE /\ render' = [render EXCEPT !.pc = "link", !.lFrame = celData.linkedFrame,
                                           !.hops = 1]
               /\ UNCHANGED canvas
    /\ UNCHANGED <<parserVars, watchVars, aseData, currentFrame, layerVisibility, lastRenderRecent>>

\* the cel getCelData looks at in frame lFrame: the one at the same position
LinkTarget(data, lFrame, numCel, layerIndex) ==
    IF HasFrame(data, lFrame) /\ numCel < Len(FrameAt(data, lFrame).cels)
    THEN [found |-> TRUE, cel |-> FrameAt(data, lFrame).cels[numCel + 1]]
    ELSE [found |-> FALSE, cel |-> LinkedCel(0, 0, 0)]

\* getCelData: look at the cel of frame lFrame; follow it when it is linked
GetCelData ==
    /\ render.pc = "link"
    /\ LET celData == CurrentCels[render.i + 1]
           t == LinkTarget(aseData, render.lFrame, render.i, celData.layerIndex)
       IN IF ~t.found
          THEN \* TypeError: it leaves writeCel and renderFrame
               /\ render' = [render EXCEPT !.pc = "idle", !.threw = TRUE]
               /\ UNCHANGED canvas
          ELSE IF t.cel.celType = 1
          THEN /\ render' = [render EXCEPT !.lFrame = t.cel.linkedFrame,
                                           !.hops = IF @ < HopCap THEN @ + 1 ELSE @]
               /\ UNCHANGED canvas
          ELSE /\ canvas' = Draw(canvas, render.i, celData, t.cel)
               /\ render' = [render EXCEPT !.pc = "cels", !.i = @ + 1,
                                           !.resolved = [numCel |-> render.i, w |-> t.cel.w,
                                                         h |-> t.cel.h,
                                                         rawCelData |-> t.cel.rawCelData]]
    /\ UNCHANGED <<parserVars, watchVars, aseData, currentFrame, layerVisibility, lastRenderRecent>>

\* renderFrame returns
RenderReturn ==
    /\ render.pc = "cels"
    /\ render.i >= Len(CurrentCels)
    /\ render' = [render EXCEPT !.pc = "idle"]
    /\ UNCHANGED <<parserVars, watchVars, aseData, currentFrame, layerVisibility, lastRenderRecent, canvas>>

(***************************************************************************)
(* The public methods.                                                     *)
(***************************************************************************)
\* loadAseFile, once the file is read and parsed
LoadAseFile(data) ==
    /\ Idle
    /\ aseData' = data
    /\ RenderFrame(data, 0, 0)
    /\ UNCHANGED <<parserVars, watchVars, layerVisibility>>

\* renderFrame called from outside
CallRenderFrame(frameIndex) ==
    /\ Idle
    /\ RenderFrame(aseData, currentFrame, frameIndex)
    /\ UNCHANGED <<parserVars, watchVars, aseData, layerVisibility>>

\* forceRender(frameIndex): renderFrame without the 100 ms limit
ForceRender(frameIndex) ==
    /\ Idle
    /\ IF ~HasFrame(aseData, frameIndex)
       THEN /\ render' = NoRender
            /\ UNCHANGED <<currentFrame, canvas>>
       ELSE /\ currentFrame' = frameIndex
            /\ canvas' = <<>>
            /\ render' = [NoRender EXCEPT !.pc = "cels"]
    /\ UNCHANGED <<parserVars, watchVars, aseData, layerVisibility, lastRenderRecent>>

\* a setLayerVisibility that writes the layer's flags instead of the map
SetLayerVisibilityInFlags(layerIndex, visible) ==
    /\ Idle
    /\ HasLayer(aseData, layerIndex)
    /\ aseData' = [aseData EXCEPT !.layers[layerIndex + 1].flags =
                                      NumberFlags(IF visible THEN 1 ELSE 0)]
    /\ RenderFrame(aseData, currentFrame, currentFrame)
    /\ UNCHANGED <<parserVars, watchVars, layerVisibility>>

SetLayerVisibility(layerIndex, visible) ==
    /\ Idle
    /\ layerVisibility' = MapSet(layerVisibility, layerIndex, visible)
    /\ IF aseData.loaded
       THEN RenderFrame(aseData, currentFrame, currentFrame)
       ELSE UNCHANGED <<currentFrame, lastRenderRecent, canvas, render>>
    /\ UNCHANGED <<parserVars, watchVars, aseData>>

ToggleLayerVisibility(layerIndex) ==
    SetLayerVisibility(layerIndex, ~IsLayerVisible(aseData, layerVisibility, layerIndex))

\* a showAllLayers that forgets the overrides
ShowAllLayersClearing ==
    /\ Idle
    /\ aseData.loaded
    /\ layerVisibility' = <<>>
    /\ RenderFrame(aseData, currentFrame, currentFrame)
    /\ UNCHANGED <<parserVars, watchVars, aseData>>

\* for every layer i: this.layerVisibility.set(i, visible)
SetAll(m, data, visible) ==
    [k \in DOMAIN m \cup {i \in 0..(Len(data.layers) - 1) : TRUE} |->
        IF k < Len(data.layers) THEN visible ELSE m[k]]

ShowAllLayers ==
    /\ Idle
    /\ aseData.loaded
    /\ layerVisibility' = SetAll(layerVisibility, aseData, TRUE)
    /\ RenderFrame(aseData, currentFrame, currentFrame)
    /\ UNCHANGED <<parserVars, watchVars, aseData>>

HideAllLayers ==
    /\ Idle
    /\ aseData.loaded
    /\ layerVisibility' = SetAll(layerVisibility, aseData, FALSE)
    /\ RenderFrame(aseData, currentFrame, currentFrame)
    /\ UNCHANGED <<parserVars, watchVars, aseData>>

\* numFrames || frames.length
FrameCount(data) == IF data.numFrames # 0 THEN data.numFrames ELSE Len(data.frames)

\* a method of the renderer returns this value: the call and its value are
\* noted, with a bit that tells a call from the one before it
Returns(fn, value) ==
    observed' = [observed EXCEPT !.call =
                    <<fn, value, IF @ = <<>> THEN 1 ELSE 1 - @[3]>>]

\* nextFrame()
NextFrame ==
    /\ Idle
    /\ aseData.loaded
    /\ IF currentFrame < FrameCount(aseData) - 1
       THEN RenderFrame(aseData, currentFrame, currentFrame + 1) /\ Returns("nextFrame", TRUE)
       ELSE /\ Returns("nextFrame", FALSE)
            /\ UNCHANGED <<currentFrame, lastRenderRecent, canvas, render>>
    /\ UNCHANGED <<parserVars, monitor, node, unified, launcher, aseData, layerVisibility>>

\* prevFrame()
PrevFrame ==
    /\ Idle
    /\ aseData.loaded
    /\ IF currentFrame > 0
       THEN RenderFrame(aseData, currentFrame, currentFrame - 1) /\ Returns("prevFrame", TRUE)
       ELSE /\ Returns("prevFrame", FALSE)
            /\ UNCHANGED <<currentFrame, lastRenderRecent, canvas, render>>
    /\ UNCHANGED <<parserVars, monitor, node, unified, launcher, aseData, layerVisibility>>

\* nextFrameLoop()
NextFrameLoop ==
    /\ Idle
    /\ aseData.loaded
    /\ IF FrameCount(aseData) <= 0
       THEN /\ Returns("nextFrameLoop", FALSE)
            /\ UNCHANGED <<currentFrame, lastRenderRecent, canvas, render>>
       ELSE /\ RenderFrame(aseData, currentFrame, (currentFrame + 1) % FrameCount(aseData))
            /\ Returns("nextFrameLoop", TRUE)
    /\ UNCHANGED <<parserVars, monitor, node, unified, launcher, aseData, layerVisibility>>

\* an updateFileData that keeps the frame index whatever the new data
UpdateFileDataKeepingFrame(newAseData) ==
    /\ Idle
    /\ aseData' = newAseData
    /\ currentFrame' = currentFrame
    /\ IF ~HasFrame(newAseData, currentFrame)
       THEN render' = NoRender /\ UNCHANGED canvas
       ELSE canvas' = <<>> /\ render' = [NoRender EXCEPT !.pc = "cels"]
    /\ Returns("updateFileData", FALSE)
    /\ UNCHANGED <<parserVars, monitor, node, unified, launcher, layerVisibility, lastRenderRecent>>

\* updateFileData(newAseData) with data that is not null: the frame index
\* is kept if it is at most maxFrame and else set to 0, and
\* forceRender(this.currentFrame) follows; noted is whether the index was
\* set to 0.  (The forceRender of the timeout it sets, 50 ms later, is a
\* ForceRender of the frame that is current then.)
UpdateFileData(newAseData) ==
    /\ Idle
    /\ LET count == IF FrameCount(newAseData) # 0 THEN FrameCount(newAseData) ELSE 1
           maxFrame == count - 1
           kept == IF currentFrame > maxFrame THEN 0 ELSE currentFrame
       IN /\ aseData' = newAseData
          /\ currentFrame' = kept
          /\ IF ~HasFrame(newAseData, kept)
             THEN render' = NoRender /\ UNCHANGED canvas
             ELSE canvas' = <<>> /\ render' = [NoRender EXCEPT !.pc = "cels"]
          /\ Returns("updateFileData", currentFrame > maxFrame)
    /\ UNCHANGED <<parserVars, monitor, node, unified, launcher, layerVisibility, lastRenderRecent>>

\* 100 ms pass since the last render
Tick ==
    /\ Idle
    /\ lastRenderRecent
    /\ lastRenderRecent' = FALSE
    /\ UNCHANGED <<parserVars, watchVars, aseData, currentFrame, layerVisibility, canvas, render>>

(***************************************************************************)
(* FileMonitor (src/electron/file-monitor.js) in the Electron main process *)
(* (src/unnamed/part_000).  One step of the model is one run of JavaScript *)
(* to its next await: a call or a callback up to its first await, or the   *)
(* continuation at the head of the microtask queue.  Timer callbacks and   *)
(* fs.watch callbacks are macrotasks: they start when the microtask queue  *)
(* is empty.  The file system changes between any two steps.               *)
(***************************************************************************)

\* the paths startWatching is called with; 0 stands for null
Paths == {1, 2}

\* the path another program writes and deletes
Edited == 1

\* modification times (stats.mtime.getTime()) and content hashes; 0 is null
Times == 1..MaxTime
Hashes == 1..2

\* the options main passes to the constructor (part_000:150-156)
enableHashCheck == TRUE
enableStatusReport == TRUE
checkIntervalOn == TRUE

\* the fields the constructor sets
NewMonitor ==
    [currentFile |-> 0, fileWatcher |-> 0, lastModified |-> 0, lastHash |-> 0,
     isProcessing |-> FALSE, statusInterval |-> 0, checkInterval |-> 0]

\* a file of the file system
File(exists, mtime, hash) == [exists |-> exists, mtime |-> mtime, hash |-> hash]

\* Node and Electron around the monitor: the files, the live fs watchers,
\* the live setInterval timers, the fs.watch events not yet delivered, the
\* number of pending debounce timeouts, the microtask queue, the window,
\* the number of pending force-refresh timeouts and main's currentFilePath
NewNode ==
    [files |-> [p \in Paths |-> File(TRUE, 1, 1)],
     watchers |-> {}, checkIntervals |-> {}, statusIntervals |-> {},
     fsEvents |-> {}, timeouts |-> 0, microtasks |-> <<>>, windowOpen |-> TRUE,
     refreshes |-> 0, currentFilePath |-> 0]

\* what the step just taken did, and what has been seen since the watch
\* began: the events emitted and the messages sent to the renderer by the
\* step, the API call the step was (for the renderer: the method that
\* returned and its value), the hash of the content the renderer
\* was last given (at first the content there when the fs watcher was
\* started), whether stopWatching() was the last API call, whether the
\* edited file was written since the monitor last recorded its time and
\* hash, and the answer of the open-file handler that returned in the step
NewObserved ==
    [emitted |-> <<>>, sent |-> <<>>, call |-> <<>>, shown |-> 0,
     stopCompleted |-> FALSE, written |-> FALSE, returned |-> <<>>]

\* the three together, for the operators that run a piece of code
World == [m |-> monitor, n |-> node,
          o |-> [observed EXCEPT !.emitted = <<>>, !.sent = <<>>, !.call = <<>>,
                                 !.returned = <<>>]]

Becomes(w) ==
    /\ monitor' = w.m
    /\ node' = w.n
    /\ observed' = w.o

\* fs.existsSync(p)
existsSync(n, p) == p # 0 /\ n.files[p].exists

\* an async function waiting at an await, with the locals it goes on with.
\* newerAndDiffers notes what checkFileChanged saw: a modification time
\* after the recorded one and a hash other than the recorded one;
\* afterWrite notes what updateFileState recorded: a file written since it
\* was last recorded; handler holds, for a startWatching the open-file
\* handler awaits, main's currentFilePath and the paths watched when the
\* handler was called
Continuation(fn, pc, filePath, hasChanged) ==
    [fn |-> fn, pc |-> pc, filePath |-> filePath, hasChanged |-> hasChanged,
     newerAndDiffers |-> FALSE, afterWrite |-> FALSE, handler |-> <<>>]

Await(w, c) == [w EXCEPT !.n.microtasks = Append(@, c)]

Resumed(w) == [w EXCEPT !.n.microtasks = Tail(@)]

Waiting(fn, pc) ==
    /\ node.microtasks # <<>>
    /\ Head(node.microtasks).fn = fn
    /\ Head(node.microtasks).pc = pc

\* the smallest handle not in use
FreeId(used) == CHOOSE i \in 1..(Cardinality(used) + 1) : i \notin used

Ids(handles) == {h.id : h \in handles}

\* the 'fileChanged' listener of main: parse the file and tell the
\* renderer, and set the timeout of the force-refresh (a content that does
\* not parse gives file-update-error as a missing file does)
OnFileChanged(w, filePath) ==
    IF ~w.n.windowOpen THEN w
    ELSE IF existsSync(w.n, filePath)
         THEN [w EXCEPT !.o.sent = Append(@, "file-updated"),
                        !.o.shown = w.n.files[filePath].hash,
                        !.n.refreshes = @ + 1]
         ELSE [w EXCEPT !.o.sent = Append(@, "file-update-error")]

\* the 'watchError' listener of main
OnWatchError(w) ==
    IF w.n.windowOpen THEN [w EXCEPT !.o.sent = Append(@, "file-watch-error")] ELSE w

\* this.emit(event, ...) with the listeners main installed
emit(w, event, filePath) ==
    LET e == [w EXCEPT !.o.emitted = Append(@, event)]
    IN IF event = "fileChanged"
       THEN OnFileChanged(e, filePath)
       ELSE IF event = "watchError" THEN OnWatchError(e)
       ELSE e

\* stopWatching(): it has no await, so it runs whole where it is called
stopWatching(w) ==
    emit([w EXCEPT
            !.n.watchers = {x \in @ : x.id # w.m.fileWatcher},
            !.n.fsEvents = @ \ {w.m.fileWatcher},
            !.n.statusIntervals = @ \ {w.m.statusInterval},
            !.n.checkIntervals = {x \in @ : x.id # w.m.checkInterval},
            !.m.fileWatcher = 0,
            !.m.statusInterval = 0,
            !.m.checkInterval = 0,
            !.m.currentFile = 0,
            !.m.lastModified = 0,
            !.m.lastHash = 0,
            !.m.isProcessing = FALSE],
         "watchStopped", 0)

\* startWatching(filePath) up to its first await, with the existence test
\* after the previous watch was stopped
startWatchingStoppingFirst(w, filePath) ==
    IF ~existsSync(w.n, filePath)
    THEN emit(stopWatching(w), "watchError", filePath)
    ELSE Await(stopWatching(w),
               Continuation("startWatching", "stopped", filePath, FALSE))

\* startWatching(filePath) up to its first await
startWatching(w, filePath) ==
    IF ~existsSync(w.n, filePath)
    THEN emit(w, "watchError", filePath)
    ELSE Await(stopWatching(w),
               Continuation("startWatching", "stopped", filePath, FALSE))

\* initializeFileState(filePath), the file being there
initializeFileState(w, filePath) ==
    [w EXCEPT !.m.lastModified = w.n.files[filePath].mtime,
              !.m.lastHash = IF enableHashCheck THEN w.n.files[filePath].hash ELSE @,
              !.o.written = IF filePath = Edited THEN FALSE ELSE @]

\* startFileWatcher(filePath, options), the file being there
startFileWatcher(w, filePath) ==
    LET watcher == FreeId(Ids(w.n.watchers))
        timer == FreeId(Ids(w.n.checkIntervals))
    IN [w EXCEPT !.m.fileWatcher = watcher,
                 !.n.watchers = @ \cup {[id |-> watcher, filePath |-> filePath]},
                 !.m.checkInterval = IF checkIntervalOn THEN timer ELSE @,
                 !.n.checkIntervals =
                     IF checkIntervalOn
                     THEN @ \cup {[id |-> timer, filePath |-> filePath]}
                     ELSE @,
                 !.o.shown = w.n.files[filePath].hash]

\* startStatusReport()
startStatusReport(w) ==
    LET timer == FreeId(w.n.statusIntervals)
    IN [w EXCEPT !.m.statusInterval = timer,
                 !.n.statusIntervals = @ \cup {timer}]

\* checkFileChanged(filePath) with the hash comparison left out
checkFileChangedByTime(m, n, filePath) ==
    IF ~existsSync(n, filePath) THEN FALSE
    ELSE IF m.lastModified # 0 /\ n.files[filePath].mtime <= m.lastModified THEN FALSE
    ELSE TRUE

\* checkFileChanged(filePath): statSync throws for a missing file and the
\* catch answers false
checkFileChanged(m, n, filePath) ==
    IF ~existsSync(n, filePath) THEN FALSE
    ELSE IF m.lastModified # 0 /\ n.files[filePath].mtime <= m.lastModified THEN FALSE
    ELSE IF enableHashCheck /\ m.lastHash # 0 /\ n.files[filePath].hash = m.lastHash
         THEN FALSE
    ELSE TRUE

\* updateFileState(filePath), the file being there
updateFileState(w, filePath) ==
    [w EXCEPT !.m.lastModified = w.n.files[filePath].mtime,
              !.m.lastHash = IF enableHashCheck THEN w.n.files[filePath].hash ELSE @,
              !.o.written = IF filePath = Edited THEN FALSE ELSE @]

\* processFileChange() up to its first await; fn is the function awaiting it
processFileChange(w, fn) ==
    IF ~existsSync(w.n, w.m.currentFile)
    THEN Await(stopWatching(w), Continuation(fn, "returned", 0, FALSE))
    ELSE Await(w, [Continuation(fn, "checked", w.m.currentFile,
                                checkFileChanged(w.m, w.n, w.m.currentFile))
                      EXCEPT !.newerAndDiffers =
                                /\ w.m.lastModified < w.n.files[w.m.currentFile].mtime
                                /\ w.m.lastHash # w.n.files[w.m.currentFile].hash])

\* the callers of the monitor are the IPC handlers of main, run for the
\* window one after the other; a caller that does not await startWatching
\* makes its next call when the first is at its first await
CallerMayCall ==
    /\ node.windowOpen
    /\ Len(node.microtasks) < MaxCalls
    /\ \A i \in 1..Len(node.microtasks) :
           /\ node.microtasks[i].fn = "startWatching"
           /\ node.microtasks[i].pc = "stopped"

\* the watchers there will be when the calls under way have come to fs.watch
WatchersToBe(w) == Cardinality(w.n.watchers) + Len(w.n.microtasks)

\* a call of startWatching(filePath)
StartWatching(filePath) ==
    /\ CallerMayCall
    /\ LET w == startWatching(World, filePath)
       IN /\ WatchersToBe(w) <= MaxHandles
          /\ Becomes([w EXCEPT !.o.call = <<"startWatching", filePath>>,
                               !.o.stopCompleted = FALSE])
    /\ UNCHANGED <<parserVars, rendererVars, unified, launcher>>

\* a call of stopWatching()
StopWatching ==
    /\ CallerMayCall
    /\ Becomes([stopWatching(World) EXCEPT !.o.call = <<"stopWatching">>,
                                           !.o.stopCompleted = TRUE])
    /\ UNCHANGED <<parserVars, rendererVars, unified, launcher>>

\* startWatching after await this.stopWatching(): currentFile is set and
\* the file state read; statSync throws when the file is gone
StartWatchingInitialize ==
    /\ Waiting("startWatching", "stopped")
    /\ LET c == Head(node.microtasks)
           w == [Resumed(World) EXCEPT !.m.currentFile = c.filePath]
       IN IF existsSync(w.n, c.filePath)
          THEN Becomes(Await(initializeFileState(w, c.filePath),
                             [c EXCEPT !.pc = "initialized"]))
          ELSE Becomes(Await(w, [c EXCEPT !.pc = "failed"]))
    /\ UNCHANGED <<parserVars, rendererVars, unified, launcher>>

\* the open-file handler of main after await startFileWatching(filePath),
\* when the startWatching that ended was its own: it answers success, or
\* its catch answers success: false
openFileReturned(w, c, success) ==
    IF c.handler = <<>> THEN w
    ELSE [w EXCEPT !.o.returned = <<[success |-> success, before |-> c.handler[1]]>>]

\* startWatching after await this.initializeFileState(filePath) threw
StartWatchingFailed ==
    /\ Waiting("startWatching", "failed")
    /\ LET c == Head(node.microtasks)
       IN Becomes(openFileReturned(emit(Resumed(World), "watchError", c.filePath),
                                   c, FALSE))
    /\ UNCHANGED <<parserVars, rendererVars, unified, launcher>>

\* startWatching after await this.initializeFileState(filePath): the watcher
\* and the timers are started, or fs.watch throws because the file is gone
StartWatchingWatch ==
    /\ Waiting("startWatching", "initialized")
    /\ LET c == Head(node.microtasks)
           w == Resumed(World)
       IN IF existsSync(w.n, c.filePath)
          THEN LET watching == startFileWatcher(w, c.filePath)
                   reporting == IF enableStatusReport
                                THEN startStatusReport(watching) ELSE watching
               IN Becomes(Await(reporting, [c EXCEPT !.pc = "started"]))
          ELSE Becomes(openFileReturned(emit(w, "watchError", c.filePath), c, FALSE))
    /\ UNCHANGED <<parserVars, rendererVars, unified, launcher>>

\* startWatching after await this.getFileInfo(filePath)
StartWatchingStarted ==
    /\ Waiting("startWatching", "started")
    /\ LET c == Head(node.microtasks)
       IN Becomes(openFileReturned(emit(Resumed(World), "watchStarted", c.filePath),
                                   c, TRUE))
    /\ UNCHANGED <<parserVars, rendererVars, unified, launcher>>

\* fs.watch calls handleFileChange for the watcher with this id
HandleFileChange(id) ==
    /\ node.microtasks = <<>>
    /\ id \in node.fsEvents
    /\ monitor.isProcessing \/ node.timeouts < MaxTimeouts
    /\ LET w == [World EXCEPT !.n.fsEvents = @ \ {id}]
       IN IF w.m.isProcessing
          THEN Becomes(w)
          ELSE Becomes([w EXCEPT !.m.isProcessing = TRUE,
                                 !.n.timeouts = @ + 1])
    /\ UNCHANGED <<parserVars, rendererVars, unified, launcher>>

\* a debounce timeout set by handleFileChange comes due
DebounceTimeout ==
    /\ node.microtasks = <<>>
    /\ node.timeouts > 0
    /\ node.refreshes < MaxTimeouts
    /\ Becomes(processFileChange([World EXCEPT !.n.timeouts = @ - 1], "handleFileChange"))
    /\ UNCHANGED <<parserVars, rendererVars, unified, launcher>>

\* the periodic check with this id comes due: checkFileManually(filePath)
\* up to its first await
CheckFileManually(id) ==
    /\ node.microtasks = <<>>
    /\ node.refreshes < MaxTimeouts
    /\ \E t \in node.checkIntervals :
         /\ t.id = id
         /\ IF monitor.currentFile = 0 \/ monitor.isProcessing
            THEN Becomes(World)
            ELSE Becomes(Await(World,
                     Continuation("checkFileManually", "prechecked", t.filePath,
                                  checkFileChanged(monitor, node, t.filePath))))
    /\ UNCHANGED <<parserVars, rendererVars, unified, launcher>>

\* checkFileManually after await this.checkFileChanged(filePath)
CheckFileManuallyChecked ==
    /\ Waiting("checkFileManually", "prechecked")
    /\ IF Head(node.microtasks).hasChanged
       THEN Becomes(processFileChange(Resumed(World), "checkFileManually"))
       ELSE Becomes(Resumed(World))
    /\ UNCHANGED <<parserVars, rendererVars, unified, launcher>>

\* the function that awaited processFileChange() goes on: the callback of
\* the debounce timeout clears isProcessing in its finally, checkFileManually
\* returns
Settle(w, fn) ==
    IF fn = "handleFileChange" THEN [w EXCEPT !.m.isProcessing = FALSE] ELSE w

\* processFileChange after await this.stopWatching(), or after it found
\* nothing changed, or after it emitted: it returns, and so does its caller
\* (awaits with nothing between them but the return are one step)
ProcessFileChangeReturned ==
    /\ \E fn \in {"handleFileChange", "checkFileManually"} : Waiting(fn, "returned")
    /\ Becomes(Settle(Resumed(World), Head(node.microtasks).fn))
    /\ UNCHANGED <<parserVars, rendererVars, unified, launcher>>

\* processFileChange after await this.checkFileChanged(this.currentFile):
\* it returns, or updates the file state and goes on to getFileInfo; when
\* the file is gone updateFileState throws
ProcessFileChangeChecked ==
    /\ \E fn \in {"handleFileChange", "checkFileManually"} : Waiting(fn, "checked")
    /\ LET c == Head(node.microtasks)
           w == Resumed(World)
       IN IF ~c.hasChanged
          THEN Becomes(Await(w, [c EXCEPT !.pc = "returned"]))
          ELSE IF existsSync(w.n, w.m.currentFile)
               THEN Becomes(Await(updateFileState(w, w.m.currentFile),
                                  [c EXCEPT !.pc = "updated", !.filePath = w.m.currentFile,
                                            !.afterWrite = w.m.currentFile = Edited
                                                              /\ w.o.written]))
               ELSE Becomes(Await(w, [c EXCEPT !.pc = "threw"]))
    /\ UNCHANGED <<parserVars, rendererVars, unified, launcher>>

\* processFileChange after await this.getFileInfo(this.currentFile): it
\* emits fileChanged
ProcessFileChangeEmit ==
    /\ \E fn \in {"handleFileChange", "checkFileManually"} : Waiting(fn, "updated")
    /\ LET c == Head(node.microtasks)
       IN Becomes(Await(emit(Resumed(World), "fileChanged", c.filePath),
                        [c EXCEPT !.pc = "returned"]))
    /\ UNCHANGED <<parserVars, rendererVars, unified, launcher>>

\* processFileChange threw: the callback of the debounce timeout emits
\* processError and clears isProcessing, checkFileManually logs
ProcessFileChangeThrew ==
    /\ \E fn \in {"handleFileChange", "checkFileManually"} : Waiting(fn, "threw")
    /\ LET fn == Head(node.microtasks).fn
       IN IF fn = "handleFileChange"
          THEN Becomes(Settle(emit(Resumed(World), "processError", 0), fn))
          ELSE Becomes(Resumed(World))
    /\ UNCHANGED <<parserVars, rendererVars, unified, launcher>>

\* the timeout of a force-refresh comes due and the message is sent
\* whether the window is there or not
ForceRefreshTimeoutUnguarded ==
    /\ node.microtasks = <<>>
    /\ node.refreshes > 0
    /\ Becomes([World EXCEPT !.n.refreshes = @ - 1,
                             !.o.sent = Append(@, "force-refresh")])
    /\ UNCHANGED <<parserVars, rendererVars, unified, launcher>>

\* the timeout of a force-refresh comes due, 50 ms after file-updated was
\* sent: the message is sent if the window is still there
ForceRefreshTimeout ==
    /\ node.microtasks = <<>>
    /\ node.refreshes > 0
    /\ LET w == [World EXCEPT !.n.refreshes = @ - 1]
       IN Becomes(IF w.n.windowOpen
                  THEN [w EXCEPT !.o.sent = Append(@, "force-refresh")]
                  ELSE w)
    /\ UNCHANGED <<parserVars, rendererVars, unified, launcher>>

\* the open-file handler of main called with this path (0 for an empty
\* path) up to its await, or to its end when it throws at once: an empty
\* path and a missing file throw, and so does a file that does not parse
\* (here a file that is not there); else currentFilePath is set and
\* startFileWatching(filePath) is awaited
OpenFile(filePath) ==
    /\ node.microtasks = <<>>
    /\ node.windowOpen
    /\ LET before == [currentFilePath |-> node.currentFilePath,
                      watched |-> {x.filePath : x \in node.watchers}]
           w == [World EXCEPT !.o.call = <<"open-file", filePath>>,
                              !.o.stopCompleted = FALSE]
       IN IF ~existsSync(node, filePath)
          THEN Becomes([w EXCEPT !.o.returned =
                           <<[success |-> FALSE, before |-> before]>>])
          ELSE LET started == startWatching([w EXCEPT !.n.currentFilePath = filePath],
                                            filePath)
                   n == Len(started.n.microtasks)
               IN /\ WatchersToBe(started) <= MaxHandles
                  /\ Becomes([started EXCEPT !.n.microtasks[n].handler = <<before>>])
    /\ UNCHANGED <<parserVars, rendererVars, unified, launcher>>

\* the status report timer with this id comes due
StatusReport(id) ==
    /\ node.microtasks = <<>>
    /\ id \in node.statusIntervals
    /\ existsSync(node, monitor.currentFile)
    /\ Becomes(emit(World, "statusReport", monitor.currentFile))
    /\ UNCHANGED <<parserVars, rendererVars, unified, launcher>>

\* the window is closed: main destroys the monitor (part_000:58-64)
CloseWindow ==
    /\ node.microtasks = <<>>
    /\ node.windowOpen
    /\ Becomes(stopWatching([World EXCEPT !.n.windowOpen = FALSE, !.o.call = <<"destroy">>]))
    /\ UNCHANGED <<parserVars, rendererVars, unified, launcher>>

\* another program writes the edited file: every live watcher of the path
\* is sent an event if the file was there
WriteFile(mtime, hash) ==
    /\ File(TRUE, mtime, hash) # node.files[Edited]
    /\ LET w == World
           watching == {x.id : x \in {y \in node.watchers : y.filePath = Edited}}
       IN Becomes([w EXCEPT
               !.n.files[Edited] = File(TRUE, mtime, hash),
               !.n.fsEvents = IF node.files[Edited].exists THEN @ \cup watching ELSE @,
               !.o.written = TRUE])
    /\ UNCHANGED <<parserVars, rendererVars, unified, launcher>>

\* another program deletes the edited file
DeleteFile ==
    /\ node.files[Edited].exists
    /\ LET watching == {x.id : x \in {y \in node.watchers : y.filePath = Edited}}
       IN Becomes([World EXCEPT !.n.files[Edited] = File(FALSE, 0, 0),
                                !.n.fsEvents = @ \cup watching])
    /\ UNCHANGED <<parserVars, rendererVars, unified, launcher>>

(***************************************************************************)
(* UnifiedFileMonitor (src/public/ase-reader.js) in the renderer, where    *)
(* window.electronAPI and window.fileManager are there.  A call that       *)
(* awaits IPC or fetch goes on when the answer comes, in a task of its     *)
(* own; a call that awaits a promise already settled goes on from the      *)
(* microtask queue, first in first out.                                    *)
(***************************************************************************)

\* this.monitorTypes
MonitorTypes == {"electron", "server", "polling"}

\* the fields the constructor sets, the calls under way in the order they
\* came to their await, and of the last step the events it dispatched and
\* the call it ended
NewUnified ==
    [activeMonitors |-> {}, currentType |-> "null", currentFilePath |-> 0, calls |-> <<>>,
     dispatched |-> <<>>, settled |-> <<>>]

\* activeMonitors.set(type, {type, filePath, startTime})
ActiveMonitorsSet(map, type, filePath) ==
    {e \in map : e.type # type} \cup {[type |-> type, filePath |-> filePath]}

\* the type found by the detection of the environment alone
determineMonitorTypeAuto(preferredType) == "electron"

\* determineMonitorType(preferredType) where window.electronAPI is there
determineMonitorType(preferredType) ==
    IF preferredType # "null" /\ preferredType \in MonitorTypes
    THEN preferredType
    ELSE "electron"

\* a call waiting at an await: for an answer of IPC or fetch (io), or in
\* the microtask queue; type is the type the caller asked for
Call(fn, pc, filePath, type, io) ==
    [fn |-> fn, pc |-> pc, filePath |-> filePath, type |-> type, io |-> io]

CallIndexes == 1..MaxCalls

MayCall == Len(unified.calls) < MaxCalls

\* the call at index i goes on now: the first of the microtask queue, or an
\* answer coming when the queue is empty
Ready(i, pc) ==
    LET Queued == {j \in 1..Len(unified.calls) : ~unified.calls[j].io}
    IN /\ i \in 1..Len(unified.calls)
       /\ unified.calls[i].pc = pc
       /\ IF unified.calls[i].io
          THEN Queued = {}
          ELSE \A j \in Queued : i <= j

Without(calls, i) == SubSeq(calls, 1, i - 1) \o SubSeq(calls, i + 1, Len(calls))

\* stopAllWatching() up to await Promise.allSettled: stopSpecificWatching
\* awaits IPC for an electron monitor and fetch for a server monitor
StopsAwaitAnswer(u) == \E e \in u.activeMonitors : e.type \in {"electron", "server"}

\* startWatching(filePath, preferredType) up to await Promise.allSettled in
\* stopAllWatching
UnifiedStartWatching(filePath, preferredType) ==
    /\ MayCall
    /\ unified' = [unified EXCEPT
            !.calls = Append(@, Call("startWatching", "stopping", filePath, preferredType,
                                     StopsAwaitAnswer(unified))),
            !.dispatched = <<>>, !.settled = <<>>]
    /\ UNCHANGED <<parserVars, rendererVars, monitor, node, observed, launcher>>

\* stopAllWatching() up to await Promise.allSettled
UnifiedStopAllWatching ==
    /\ MayCall
    /\ unified' = [unified EXCEPT
            !.calls = Append(@, Call("stopAllWatching", "stopping", 0, "null",
                                     StopsAwaitAnswer(unified))),
            !.dispatched = <<>>, !.settled = <<>>]
    /\ UNCHANGED <<parserVars, rendererVars, monitor, node, observed, launcher>>

\* switchMonitorType(newType): it throws when no file is watched, and else
\* runs up to await Promise.allSettled in stopAllWatching
UnifiedSwitchMonitorType(newType) ==
    /\ IF unified.currentFilePath = 0
       THEN unified' = [unified EXCEPT
               !.dispatched = <<>>,
               !.settled = <<[call |-> Call("switchMonitorType", "called", 0, newType, FALSE),
                              resolved |-> FALSE]>>]
       ELSE /\ MayCall
            /\ unified' = [unified EXCEPT
                  !.calls = Append(@, Call("switchMonitorType", "stopping",
                                           unified.currentFilePath, newType,
                                           StopsAwaitAnswer(unified))),
                  !.dispatched = <<>>, !.settled = <<>>]
    /\ UNCHANGED <<parserVars, rendererVars, monitor, node, observed, launcher>>

\* stopAllWatching after await Promise.allSettled
stopAllWatchingSettled(u) ==
    [u EXCEPT !.activeMonitors = {}, !.currentType = "null", !.currentFilePath = 0,
              !.dispatched = <<"monitorStopped">>, !.settled = <<>>]

\* the stops have settled: the map is cleared and monitorStopped is
\* dispatched.  stopAllWatching returns; switchMonitorType goes on to
\* startWatching, which stops all again; startWatching picks the type and
\* starts the watch of that type: the polling watch is started at once, the
\* others await IPC or fetch
StopAllWatchingSettled(i) ==
    /\ Ready(i, "stopping") \/ Ready(i, "restopping")
    /\ LET c == unified.calls[i]
           u == stopAllWatchingSettled([unified EXCEPT !.calls = Without(@, i)])
           type == determineMonitorType(c.type)
       IN unified' =
            IF c.fn = "stopAllWatching"
            THEN [u EXCEPT !.settled = <<[call |-> c, resolved |-> TRUE]>>]
            ELSE IF c.fn = "switchMonitorType" /\ c.pc = "stopping"
            THEN [u EXCEPT !.calls =
                     Append(@, [c EXCEPT !.pc = "restopping", !.io = FALSE])]
            ELSE IF type = "polling"
            THEN [u EXCEPT !.activeMonitors = ActiveMonitorsSet(@, type, c.filePath),
                           !.calls = Append(@, [c EXCEPT !.pc = "started", !.io = FALSE])]
            ELSE [u EXCEPT !.calls = Append(@, [c EXCEPT !.pc = "starting", !.io = TRUE])]
    /\ UNCHANGED <<parserVars, rendererVars, monitor, node, observed, launcher>>

\* startElectronWatching or startServerWatching after its await: the answer
\* is a success and the monitor is entered in the map, or it is a failure:
\* startWatching dispatches monitorError and throws
StartTypeWatchingReturned(i, success) ==
    /\ Ready(i, "starting")
    /\ LET c == unified.calls[i]
       IN unified' =
            IF success
            THEN [unified EXCEPT
                     !.activeMonitors =
                         ActiveMonitorsSet(@, determineMonitorType(c.type), c.filePath),
                     !.calls = Append(Without(@, i), [c EXCEPT !.pc = "started", !.io = FALSE]),
                     !.dispatched = <<>>, !.settled = <<>>]
            ELSE [unified EXCEPT
                     !.calls = Without(@, i),
                     !.dispatched = <<"monitorError">>,
                     !.settled = <<[call |-> c, resolved |-> FALSE]>>]
    /\ UNCHANGED <<parserVars, rendererVars, monitor, node, observed, launcher>>

\* startWatching after the watch of its type is started: it sets
\* currentType and currentFilePath, dispatches monitorStarted and returns
UnifiedStartWatchingStarted(i) ==
    /\ Ready(i, "started")
    /\ LET c == unified.calls[i]
       IN unified' = [unified EXCEPT !.currentType = determineMonitorType(c.type),
                                     !.currentFilePath = c.filePath,
                                     !.calls = Without(@, i),
                                     !.dispatched = <<"monitorStarted">>,
                                     !.settled = <<[call |-> c, resolved |-> TRUE]>>]
    /\ UNCHANGED <<parserVars, rendererVars, monitor, node, observed, launcher>>

(***************************************************************************)
(* The launcher (src/start.js).  main() awaits startServer(), which cleans *)
(* the port, spawns the server and probes it once a second, and then       *)
(* starts Electron.  The server process comes to listen, or exits, when it *)
(* will; SIGINT and SIGTERM come when they will.                           *)
(***************************************************************************)
\* const maxAttempts = 30
maxAttempts == 30

\* the launcher when the script starts: pc is the await main() stands at,
\* serverProcess and electronProcess are not spawned, the server is not
\* listening, no probe has answered and the process has not exited (-1)
NewLauncher ==
    [pc |-> "start", attempts |-> 0, serverProcess |-> FALSE, electronProcess |-> FALSE,
     listening |-> FALSE, isReady |-> FALSE, exitCode |-> -1]

\* main() up to await cleanupPort(3000) in startServer()
Main ==
    /\ launcher.pc = "start"
    /\ launcher' = [launcher EXCEPT !.pc = "cleaning"]
    /\ UNCHANGED <<parserVars, rendererVars, monitor, node, observed, unified>>

\* startServer() after await cleanupPort(3000): the server is spawned and
\* the first probe is sent
SpawnServer ==
    /\ launcher.pc = "cleaning"
    /\ launcher' = [launcher EXCEPT !.pc = "probing", !.serverProcess = TRUE]
    /\ UNCHANGED <<parserVars, rendererVars, monitor, node, observed, unified>>

\* the server process has come to app.listen(PORT) (src/server.js)
ServerListens ==
    /\ launcher.serverProcess
    /\ launcher.exitCode = -1
    /\ ~launcher.listening
    /\ launcher' = [launcher EXCEPT !.listening = TRUE]
    /\ UNCHANGED <<parserVars, rendererVars, monitor, node, observed, unified>>

\* startServer() after await checkServerReady(): a probe is answered only by
\* a server that listens, and one that listens may let it time out.  With
\* isReady the loop is left, startServer() returns and main() calls
\* startElectron(); without, the wait of a second begins
ProbeAnswered(isReady) ==
    /\ launcher.pc = "probing"
    /\ launcher' =
          IF isReady /\ launcher.listening
          THEN [launcher EXCEPT !.pc = "running", !.isReady = TRUE,
                                !.electronProcess = TRUE]
          ELSE [launcher EXCEPT !.pc = "sleeping"]
    /\ UNCHANGED <<parserVars, rendererVars, monitor, node, observed, unified>>

\* a startServer() that leaves its loop after maxAttempts probes without
\* process.exit(1)
WaitOverWithoutExit ==
    /\ launcher.pc = "sleeping"
    /\ launcher' =
          IF launcher.attempts + 1 < maxAttempts
          THEN [launcher EXCEPT !.pc = "probing", !.attempts = @ + 1]
          ELSE [launcher EXCEPT !.pc = "running", !.attempts = @ + 1,
                                !.electronProcess = TRUE]
    /\ UNCHANGED <<parserVars, rendererVars, monitor, node, observed, unified>>

\* startServer() after the wait of a second: attempts is counted up and the
\* next probe is sent, or the loop ends and process.exit(1) is called
WaitOver ==
    /\ launcher.pc = "sleeping"
    /\ launcher' =
          IF launcher.attempts + 1 < maxAttempts
          THEN [launcher EXCEPT !.pc = "probing", !.attempts = @ + 1]
          ELSE [launcher EXCEPT !.pc = "exited", !.attempts = @ + 1, !.exitCode = 1]
    /\ UNCHANGED <<parserVars, rendererVars, monitor, node, observed, unified>>

\* SIGINT or SIGTERM: cleanup() kills the processes and exits with code 0
Cleanup ==
    /\ launcher.exitCode = -1
    /\ launcher' = [launcher EXCEPT !.pc = "exited", !.exitCode = 0,
                                    !.listening = FALSE]
    /\ UNCHANGED <<parserVars, rendererVars, monitor, node, observed, unified>>

\* a new AseReader over one of the files, and a renderer nobody uses
InitParser ==
    /\ buf \in Files
    /\ reader = NewReader
    /\ parse = NewParse
    /\ aseData = NullData
    /\ currentFrame = 0
    /\ layerVisibility = <<>>
    /\ lastRenderRecent = FALSE
    /\ canvas = <<>>
    /\ render = NoRender
    /\ monitor = NewMonitor
    /\ node = NewNode
    /\ observed = NewObserved
    /\ unified = NewUnified
    /\ launcher = NewLauncher

\* a new AseCanvasRenderer, and no reader at work
InitRenderer ==
    /\ buf = <<>>
    /\ reader = NewReader
    /\ parse = NewParse
    /\ aseData = NullData
    /\ currentFrame = 0
    /\ layerVisibility = <<>>
    /\ lastRenderRecent = FALSE
    /\ canvas = <<>>
    /\ render = NoRender
    /\ monitor = NewMonitor
    /\ node = NewNode
    /\ observed = NewObserved
    /\ unified = NewUnified
    /\ launcher = NewLauncher

NextParser ==
    \/ ReadHeader
    \/ ReadFrameHeader
    \/ ReadChunk
    \/ ReadFrameEnd
    \/ ParseReturn

NextRenderer ==
    \/ \E data \in Documents : LoadAseFile(data)
    \/ \E f \in FrameIndexArgs : CallRenderFrame(f)
    \/ \E f \in FrameIndexArgs : ForceRender(f)
    \/ \E i \in LayerIndexArgs, v \in BOOLEAN : SetLayerVisibility(i, v)
    \/ \E i \in LayerIndexArgs : ToggleLayerVisibility(i)
    \/ ShowAllLayers
    \/ HideAllLayers
    \/ RenderCel
    \/ GetCelData
    \/ RenderReturn
    \/ Tick

\* a new FileMonitor in a main process whose window is open
InitMonitor ==
    /\ buf = <<>>
    /\ reader = NewReader
    /\ parse = NewParse
    /\ aseData = NullData
    /\ currentFrame = 0
    /\ layerVisibility = <<>>
    /\ lastRenderRecent = FALSE
    /\ canvas = <<>>
    /\ render = NoRender
    /\ monitor = NewMonitor
    /\ node = NewNode
    /\ observed = NewObserved
    /\ unified = NewUnified
    /\ launcher = NewLauncher

\* a new UnifiedFileMonitor
InitUnified == InitMonitor

NextMonitor ==
    \/ \E filePath \in Paths : StartWatching(filePath)
    \/ StopWatching
    \/ StartWatchingInitialize
    \/ StartWatchingFailed
    \/ StartWatchingWatch
    \/ StartWatchingStarted
    \/ \E id \in 1..MaxHandles : HandleFileChange(id)
    \/ DebounceTimeout
    \/ \E id \in 1..MaxHandles : CheckFileManually(id)
    \/ CheckFileManuallyChecked
    \/ ProcessFileChangeReturned
    \/ ProcessFileChangeChecked
    \/ ProcessFileChangeEmit
    \/ ProcessFileChangeThrew
    \/ \E id \in 1..MaxHandles : StatusReport(id)
    \/ ForceRefreshTimeout
    \/ CloseWindow
    \/ \E mtime \in Times, hash \in Hashes : WriteFile(mtime, hash)
    \/ DeleteFile

NextUnified ==
    \/ \E filePath \in Paths, preferredType \in MonitorTypes \cup {"null"} :
          UnifiedStartWatching(filePath, preferredType)
    \/ UnifiedStopAllWatching
    \/ \E newType \in MonitorTypes \cup {"websocket"} : UnifiedSwitchMonitorType(newType)
    \/ \E i \in CallIndexes : StopAllWatchingSettled(i)
    \/ \E i \in CallIndexes, success \in BOOLEAN : StartTypeWatchingReturned(i, success)
    \/ \E i \in CallIndexes : UnifiedStartWatchingStarted(i)

SpecMonitor == InitMonitor /\ [][NextMonitor]_vars

\* the event loop runs every queued continuation, and again and again every
\* timer that is due and every fs.watch callback that is waiting (these
\* wait while a continuation is queued, hence the strong fairness)
SpecMonitorFair ==
    /\ SpecMonitor
    /\ WF_vars(StartWatchingInitialize)
    /\ WF_vars(StartWatchingFailed)
    /\ WF_vars(StartWatchingWatch)
    /\ WF_vars(StartWatchingStarted)
    /\ \A id \in 1..MaxHandles : SF_vars(HandleFileChange(id))
    /\ SF_vars(DebounceTimeout)
    /\ SF_vars(ForceRefreshTimeout)
    /\ \A id \in 1..MaxHandles : SF_vars(CheckFileManually(id))
    /\ WF_vars(CheckFileManuallyChecked)
    /\ WF_vars(ProcessFileChangeReturned)
    /\ WF_vars(ProcessFileChangeChecked)
    /\ WF_vars(ProcessFileChangeEmit)
    /\ WF_vars(ProcessFileChangeThrew)

\* the renderer with the methods that set the document and the frame, the
\* layers left as the document has them
NextFrames ==
    \/ \E data \in Documents : LoadAseFile(data)
    \/ \E f \in FrameIndexArgs : CallRenderFrame(f)
    \/ \E f \in FrameIndexArgs : ForceRender(f)
    \/ RenderCel
    \/ GetCelData
    \/ RenderReturn
    \/ Tick
    \/ NextFrame
    \/ PrevFrame
    \/ NextFrameLoop
    \/ \E data \in Documents : UpdateFileData(data)

SpecFrames == InitRenderer /\ [][NextFrames]_vars

NextLauncher ==
    \/ Main
    \/ SpawnServer
    \/ ServerListens
    \/ \E isReady \in BOOLEAN : ProbeAnswered(isReady)
    \/ WaitOver
    \/ Cleanup

SpecLauncher == InitMonitor /\ [][NextLauncher]_vars

\* the promises of cleanupPort, of checkServerReady and of the wait of a
\* second all settle: each is resolved by a timer at the latest
SpecLauncherFair ==
    /\ SpecLauncher
    /\ WF_vars(SpawnServer)
    /\ WF_vars(Main)
    /\ WF_vars(\E isReady \in BOOLEAN : ProbeAnswered(isReady))
    /\ WF_vars(WaitOver)

\* the monitor with the open-file handler of main as its caller
NextMain ==
    \/ NextMonitor
    \/ \E filePath \in Paths \cup {0} : OpenFile(filePath)

SpecMain == InitMonitor /\ [][NextMain]_vars

SpecUnified == InitUnified /\ [][NextUnified]_vars

SpecParser == InitParser /\ [][NextParser]_vars

SpecRenderer == InitRenderer /\ [][NextRenderer]_vars

(***************************************************************************)
(* Properties of the reader.                                               *)
(***************************************************************************)
\* A chunk has just been read, and parse() goes on.
AfterChunk == parse.pc = "chunks" /\ parse.ci > 0

\* C1: when parse() returns without error, frames holds exactly as many
\* entries as the frame count read from the header of the file.
C1_FrameCountMatchesHeader ==
    parse.pc = "done" =>
        /\ Len(reader.frames) = getUint16(buf, 6)
        /\ Len(reader.frames) = reader.numFrames

\* C1 witness: parse() has returned with two frames, one of them holding a cel.
C1_Witness ==
    /\ parse.pc = "done"
    /\ Len(reader.frames) = 2
    /\ \E k \in 1..2 : reader.frames[k].cels # <<>>

\* C2: after a chunk whose type is none of layer, cel, colour profile, tags,
\* palette (and whose declared size covers its 6 header bytes), the cursor
\* stands exactly chunkSize bytes past the start of the chunk.
C2_OtherChunkSkippedBySize ==
    (AfterChunk /\ parse.chunk.type \notin DecodedTypes /\ parse.chunk.chunkSize >= 6) =>
        reader.offset = parse.chunk.start + parse.chunk.chunkSize

\* C3: after a chunk of a decoded type, parse() goes on only with the cursor
\* exactly chunkSize bytes past the start of the chunk.
C3_DecodedChunkConsumesSize ==
    (AfterChunk /\ parse.chunk.type \in DecodedTypes) =>
        reader.offset = parse.chunk.start + parse.chunk.chunkSize

(***************************************************************************)
(* Properties of the renderer.                                             *)
(***************************************************************************)
\* renderFrame is at work: the canvas holds what this call has drawn so far
Rendering == render.pc # "idle"

NotFound == [found |-> FALSE, cel |-> LinkedCel(0, 0, 0)]

\* The resolution the specification describes: in frame F, the cel whose
\* layerIndex is L; when that is a linked cel, the same in the frame it names.
RECURSIVE ResolveByLayer(_, _, _, _)
ResolveByLayer(data, F, L, fuel) ==
    IF fuel = 0 \/ ~HasFrame(data, F) THEN NotFound
    ELSE LET cs == FrameAt(data, F).cels
             ks == {k \in 1..Len(cs) : cs[k].layerIndex = L}
         IN IF ks = {} THEN NotFound
            ELSE LET c == cs[CHOOSE k \in ks : \A j \in ks : k <= j]
                 IN IF c.celType = 1 THEN ResolveByLayer(data, c.linkedFrame, L, fuel - 1)
                    ELSE [found |-> TRUE, cel |-> c]

\* C4: what getCelData returns for a linked cel of layer L is the width,
\* height and bytes of the cel of layer L in the frame the link names
\* (following further links), wherever that cel stands in its frame.
C4_LinkedCelResolvesByLayer ==
    (render.pc = "cels" /\ render.resolved.numCel >= 0) =>
        LET celData == CurrentCels[render.resolved.numCel + 1]
            t == ResolveByLayer(aseData, celData.linkedFrame, celData.layerIndex,
                                Len(aseData.frames))
        IN t.found => /\ render.resolved.w = t.cel.w
                      /\ render.resolved.h = t.cel.h
                      /\ render.resolved.rawCelData = t.cel.rawCelData

\* C5: the resolution of a linked cel follows at most frameCount links.
C5_ResolutionWithinFrameCountHops ==
    render.pc = "link" => render.hops <= Len(aseData.frames)

\* the visibility the flags of layer i give, stated from the flag values
FlagDerived(i) ==
    LET flags == LayerAt(aseData, i).flags
    IN IF flags.t = "number" THEN flags.v \in {1, 3}
       ELSE IF flags.t = "object" THEN flags.v = 1
       ELSE TRUE

\* C6: with a document loaded, for every layer index the effective visibility is the override when
\* one is set for the index, otherwise bit 0 of the layer's flags; without
\* usable flag data it is visible.
C6_OverrideElseFlagBit ==
    aseData.loaded =>
        \A i \in LayerIndexArgs :
            IsLayerVisible(aseData, layerVisibility, i) =
                IF i \in DOMAIN layerVisibility THEN layerVisibility[i]
                ELSE IF HasLayer(aseData, i) THEN FlagDerived(i)
                ELSE TRUE

\* C6 amended: with a document loaded, for an index that names a layer the
\* effective visibility is the override when one is set, otherwise bit 0 of
\* numeric flags (the visible field of object flags; visible when the flags
\* are neither); an index that names no layer is visible whatever its override.
C6_OverrideElseFlagBitOfExistingLayer ==
    aseData.loaded =>
        \A i \in LayerIndexArgs :
            IsLayerVisible(aseData, layerVisibility, i) =
                IF ~HasLayer(aseData, i) THEN TRUE
                ELSE IF i \in DOMAIN layerVisibility THEN layerVisibility[i]
                ELSE FlagDerived(i)

\* C6 witness: a layer shown by its flags and hidden by an override, next to
\* a layer hidden by its flags with no override.
C6_Witness ==
    \E i, j \in LayerIndexArgs :
        /\ HasLayer(aseData, i) /\ HasLayer(aseData, j)
        /\ FlagDerived(i) /\ i \in DOMAIN layerVisibility /\ ~layerVisibility[i]
        /\ ~FlagDerived(j) /\ j \notin DOMAIN layerVisibility

\* the cel the cel loop has just passed
PassedCel == CurrentCels[render.i]

JustPassed == render.pc = "cels" /\ render.i > 0

Drawable(cel) == cel.celType # 1 /\ Len(cel.rawCelData) > 0 /\ cel.w > 0 /\ cel.h > 0

LastBlitIsPassedCel == canvas # <<>> /\ canvas[Len(canvas)].numCel = render.i - 1

\* C7: a cel whose layerIndex names no layer is never painted.
C7_UnknownLayerNeverPainted ==
    Rendering => \A k \in 1..Len(canvas) : HasLayer(aseData, canvas[k].layerIndex)

\* C7 amended: a cel whose layerIndex names no layer is treated as visible,
\* whatever the overrides: the cel loop paints it when it carries pixels, and
\* goes on.
C7_UnknownLayerAlwaysPainted ==
    (JustPassed /\ ~HasLayer(aseData, PassedCel.layerIndex) /\ Drawable(PassedCel)) =>
        LastBlitIsPassedCel

\* C7 witness: the cel of a missing layer has been painted although an
\* override hides its index.
C7_Witness ==
    /\ JustPassed
    /\ ~HasLayer(aseData, PassedCel.layerIndex)
    /\ PassedCel.layerIndex \in DOMAIN layerVisibility
    /\ ~layerVisibility[PassedCel.layerIndex]
    /\ LastBlitIsPassedCel
    /\ Len(canvas) > 1

HiddenByOverride(i) == i \in DOMAIN layerVisibility /\ ~layerVisibility[i]

C10_DocumentUnchanged ==
    [][aseData' # aseData => \E data \in Documents : LoadAseFile(data)]_vars

\* C10 witness: overrides have been set against the flags and a frame has
\* been rendered with them.
C10_Witness ==
    /\ Idle
    /\ canvas # <<>>
    /\ \E i \in LayerIndexArgs :
          HasLayer(aseData, i) /\ ~FlagDerived(i) /\ i \in DOMAIN layerVisibility
          /\ layerVisibility[i]
    /\ \E i \in LayerIndexArgs :
          HasLayer(aseData, i) /\ FlagDerived(i) /\ HiddenByOverride(i)

\* the visibility isLayerVisible is to give index i of the loaded document
EffectiveVisible(i) ==
    IF ~HasLayer(aseData, i) THEN TRUE
    ELSE IF i \in DOMAIN layerVisibility THEN layerVisibility[i]
    ELSE FlagDerived(i)

\* the cel a linked cel at position numCel stands for: the cel at that
\* position of the frame it names, followed while it is a linked cel
RECURSIVE ResolveByPosition(_, _, _)
ResolveByPosition(F, numCel, fuel) ==
    IF fuel = 0 \/ ~HasFrame(aseData, F) \/ numCel >= Len(FrameAt(aseData, F).cels)
    THEN NotFound
    ELSE LET c == FrameAt(aseData, F).cels[numCel + 1]
         IN IF c.celType = 1 THEN ResolveByPosition(c.linkedFrame, numCel, fuel - 1)
            ELSE [found |-> TRUE, cel |-> c]

\* The picture of frame f as a function of the document, f and the overrides
\* alone: the visible cels from position k on, painted over cv.
RECURSIVE PictureFrom(_, _, _)
PictureFrom(f, k, cv) ==
    LET cs == FrameAt(aseData, f).cels
    IN IF k > Len(cs) THEN cv
       ELSE LET c == cs[k]
                t == IF c.celType = 1
                     THEN ResolveByPosition(c.linkedFrame, k - 1, Len(aseData.frames))
                     ELSE [found |-> TRUE, cel |-> c]
            IN IF EffectiveVisible(c.layerIndex) /\ t.found /\ Drawable(t.cel)
               THEN PictureFrom(f, k + 1, Append(cv, Blit(k - 1, c, t.cel)))
               ELSE PictureFrom(f, k + 1, cv)

Picture(f) == PictureFrom(f, 1, <<>>)

BytesPerPixel(colorDepth) == IF colorDepth = 8 THEN 1 ELSE IF colorDepth = 16 THEN 2 ELSE 4

\* the four bytes of pixel i (from 0) of a painted block
PixelOf(blit, i) == SubSeq(blit.data, 4 * i + 1, 4 * i + 4)

\* C12: at colour depth 32 the block painted for a cel holds the first
\* min(len, w*h*4) bytes of the cel and 0 in every other byte; at every depth
\* a visible cel with fewer bytes than its size needs is painted all the same,
\* each pixel whose bytes are not all there being (0, 0, 0, 0) at depth 8 and 16.
C12_ShortCelZeroFilled ==
    Rendering =>
        /\ \A n \in 1..Len(canvas) :
              LET b == canvas[n]
              IN /\ Len(b.data) = b.w * b.h * 4
                 /\ aseData.colorDepth = 32 =>
                       \A k \in 1..(b.w * b.h * 4) :
                          b.data[k] = IF k <= Len(b.rawCelData) THEN b.rawCelData[k] ELSE 0
                 /\ aseData.colorDepth \in {8, 16} =>
                       \A i \in 0..(b.w * b.h - 1) :
                          (i + 1) * BytesPerPixel(aseData.colorDepth) > Len(b.rawCelData) =>
                              PixelOf(b, i) = <<0, 0, 0, 0>>
        /\ (JustPassed /\ PassedCel.celType # 1 /\ Drawable(PassedCel)
              /\ EffectiveVisible(PassedCel.layerIndex)) =>
                 (LastBlitIsPassedCel /\ ~render.threw)

\* C12 witness: at depth 32 a cel with 5 of its 8 bytes has been painted, the
\* fifth byte copied and the last three 0.
C12_Witness ==
    /\ Rendering /\ aseData.colorDepth = 32
    /\ \E n \in 1..Len(canvas) :
          /\ canvas[n].w * canvas[n].h * 4 = 8
          /\ Len(canvas[n].rawCelData) = 5
          /\ canvas[n].data = <<1, 2, 3, 255, 4, 0, 0, 0>>

\* C13: at colour depth 16 every pixel whose two bytes (value, alpha) are in
\* the cel data is painted as (value, value, value, alpha).
C13_GrayPixelDecoded ==
    (Rendering /\ aseData.colorDepth = 16) =>
        \A n \in 1..Len(canvas) :
            LET b == canvas[n]
            IN \A i \in 0..(b.w * b.h - 1) :
                  2 * i + 2 <= Len(b.rawCelData) =>
                      PixelOf(b, i) = <<b.rawCelData[2 * i + 1], b.rawCelData[2 * i + 1],
                                        b.rawCelData[2 * i + 1], b.rawCelData[2 * i + 2]>>

\* C13 witness: the pixel (90, 3) has been painted as (90, 90, 90, 3).
C13_Witness ==
    /\ Rendering /\ aseData.colorDepth = 16
    /\ \E n \in 1..Len(canvas) :
          /\ Len(canvas[n].rawCelData) = 4
          /\ PixelOf(canvas[n], 1) = <<90, 90, 90, 3>>

\* C14: at colour depth 8 a pixel byte p is painted as entry p of the
\* palette of the document, and as (0, 0, 0, 0) when the palette has no entry
\* p or the document has no palette; the cel is painted without error.
C14_IndexedPixelDecoded ==
    (Rendering /\ aseData.colorDepth = 8) =>
        /\ \A n \in 1..Len(canvas) :
              LET b == canvas[n]
              IN \A i \in 0..(b.w * b.h - 1) :
                    i < Len(b.rawCelData) =>
                        LET p == b.rawCelData[i + 1]
                            colors == aseData.palette.colors
                        IN PixelOf(b, i) =
                              IF aseData.palette.present /\ p >= 0 /\ p < Len(colors)
                              THEN <<colors[p + 1].red, colors[p + 1].green,
                                     colors[p + 1].blue, colors[p + 1].alpha>>
                              ELSE <<0, 0, 0, 0>>
        /\ ~render.threw

\* C14 witness: with entry 5 = (10, 20, 30, 255) in a palette of six, the
\* bytes 5, 6, 0 have been painted as entry 5, nothing, entry 0.
C14_Witness ==
    /\ Rendering /\ aseData.colorDepth = 8 /\ aseData.palette.present
    /\ \E n \in 1..Len(canvas) :
          /\ canvas[n].rawCelData = <<5, 6, 0>>
          /\ canvas[n].data = <<10, 20, 30, 255, 0, 0, 0, 0, 0, 0, 0, 0>>

\* C15: the cels painted stand on the canvas in the order of frame.cels, a
\* later cel over an earlier one, whatever their opacity.
C15_PaintedInStoredOrder ==
    Rendering =>
        \A j, k \in 1..Len(canvas) : j < k => canvas[j].numCel < canvas[k].numCel

\* two painted blocks share a pixel of the canvas
Overlap(a, b) ==
    /\ a.xpos < b.xpos + b.w /\ b.xpos < a.xpos + a.w
    /\ a.ypos < b.ypos + b.h /\ b.ypos < a.ypos + a.h

\* C15 witness: two cels that overlap have been painted, the later one, of
\* lower opacity, over the earlier one.
C15_Witness ==
    /\ Rendering
    /\ Len(canvas) = 2
    /\ Overlap(canvas[1], canvas[2])
    /\ CurrentCels[canvas[2].numCel + 1].opacity < CurrentCels[canvas[1].numCel + 1].opacity

\* C18: a render called with a frame index outside the frames fails, painting
\* nothing; and a render called with a frame of the document fails only when
\* the chain of a linked cel, followed by layer as the links are meant, does
\* not end at a cel with pixels.
C18_FailsOnlyOnBadFrameOrChain ==
    [][/\ \A f \in FrameIndexArgs :
             ((CallRenderFrame(f) \/ ForceRender(f)) /\ ~HasFrame(aseData, f)) =>
                 (canvas' = canvas /\ render'.pc = "idle")
       /\ (render'.threw /\ ~render.threw) =>
             LET celData == CurrentCels[render.i + 1]
             IN ~ResolveByLayer(aseData, celData.linkedFrame, celData.layerIndex,
                                Len(aseData.frames)).found]_vars

(***************************************************************************)
(* Further properties of the reader.                                       *)
(***************************************************************************)
\* C16: parse() does not return normally with the cursor past the end of the
\* buffer: a buffer that ends before the data its sizes declare makes it fail.
C16_TruncatedBufferAborts ==
    parse.pc = "done" => reader.offset <= Len(buf)

\* the cel the last chunk has appended
LastCel == parse.cels[Len(parse.cels)]

\* C17: after a celType 2 cel whose decompression failed parse() goes on, the
\* cel is in the frame as a cel with pixels, its bytes the payload as stored,
\* and the cursor stands at the end of the chunk.
C17_InflateFailureKeepsPayload ==
    (AfterChunk /\ parse.chunk.type = 8197 /\ ~parse.chunk.inflateOk) =>
        /\ parse.cels # <<>>
        /\ LastCel.celType = 2
        /\ LastCel.hasPixels
        /\ LastCel.rawCelData =
              RawBytes(buf, parse.chunk.start + 26, parse.chunk.chunkSize - 26)
        /\ reader.offset = parse.chunk.start + parse.chunk.chunkSize

\* C17 witness: the compressed cel of 4 payload bytes has been read with a
\* failed inflate, and the chunk after it has been read as a layer.
C17_Witness ==
    /\ parse.pc = "done"
    /\ Len(reader.frames) = 1
    /\ Len(reader.frames[1].cels) = 1
    /\ reader.frames[1].cels[1].celType = 2
    /\ reader.frames[1].cels[1].rawCelData = <<120, 156, 99, 0>>
    /\ Len(reader.layers) = 1

\* C19: after a palette chunk, the first colour has a name read from the
\* file exactly when bit 0 of its flags word, the has-name bit, is set.
C19_NameReadWhenFlagBitSet ==
    (AfterChunk /\ parse.chunk.type = 8217 /\ reader.palette.colors # <<>>) =>
        (reader.palette.colors[1].named = (getUint16(buf, parse.chunk.start + 26) % 2 = 1))

\* C20: every tag parse() has produced has one of the three loop directions.
C20_TagDirectionIsKnown ==
    \A k \in 1..Len(reader.tags) :
        reader.tags[k].animDirection \in {"Forward", "Reverse", "Ping-pong"}

\* C21: in the document parse() returns the layerIndex of every cel is
\* smaller than the number of layers parsed.
C21_CelLayerIndexInRange ==
    parse.pc = "done" =>
        \A f \in 1..Len(reader.frames) :
            \A k \in 1..Len(reader.frames[f].cels) :
                reader.frames[f].cels[k].layerIndex < Len(reader.layers)

\* the payload bytes of the chunk just read, as they stand in the file
StoredPayload == RawBytes(buf, parse.chunk.start + 26, parse.chunk.chunkSize - 26)

AfterCelChunk == AfterChunk /\ parse.chunk.type = 8197 /\ parse.cels # <<>>

\* C22: a cel chunk of celType 1 gives a linked cel with the frame it names
\* and no width, height or bytes; one of any other celType gives a cel with
\* width, height and the chunkSize-26 payload bytes (inflated when celType 2
\* inflates), the cursor standing chunkSize bytes past the start of the chunk.
C22_CelChunkDecoded ==
    AfterCelChunk =>
        IF LastCel.celType = 1
        THEN /\ ~LastCel.hasPixels
             /\ LastCel.linkedFrame = getUint16(buf, parse.chunk.start + 22)
        ELSE /\ LastCel.hasPixels
             /\ LastCel.w = getUint16(buf, parse.chunk.start + 22)
             /\ LastCel.h = getUint16(buf, parse.chunk.start + 24)
             /\ \/ LastCel.rawCelData = StoredPayload
                \/ /\ LastCel.celType = 2 /\ parse.chunk.inflateOk
                   /\ \E inflate \in InflateOutcomes : LastCel.rawCelData = inflate.data
             /\ reader.offset = parse.chunk.start + parse.chunk.chunkSize

(***************************************************************************)
(* Properties of the file monitors.                                        *)
(***************************************************************************)

\* a watch is on: the monitor has a file and an fs watcher
Watched == monitor.currentFile # 0 /\ monitor.fileWatcher # 0

\* no call or callback of the monitor is at an await
Quiet == node.microtasks = <<>>

\* the watched file holds a content the renderer has not been given
Stale ==
    /\ node.windowOpen
    /\ Watched
    /\ existsSync(node, monitor.currentFile)
    /\ node.files[monitor.currentFile].hash # observed.shown

\* C23: while a file is watched and the window is open, a modification of
\* the content of the file is in the end followed by a file-updated or
\* file-update-error message to the renderer.
C23_ModificationIsReported == Stale ~> ~Stale

\* C24: when no call of the UnifiedFileMonitor is under way, activeMonitors
\* holds at most one entry, and its type and path are currentType and
\* currentFilePath.
C24_SingleActiveMonitor ==
    unified.calls = <<>> =>
        /\ Cardinality(unified.activeMonitors) <= 1
        /\ \A e \in unified.activeMonitors :
              /\ e.type = unified.currentType
              /\ e.filePath = unified.currentFilePath

\* C25: when no call of the FileMonitor is under way, at most one fs watcher,
\* one periodic check and one status timer are live, each is the one the
\* monitor holds, and the watcher and the check are for currentFile.
C25_OneWatcherAndTimers ==
    Quiet =>
        /\ Cardinality(node.watchers) <= 1
        /\ Cardinality(node.checkIntervals) <= 1
        /\ Cardinality(node.statusIntervals) <= 1
        /\ \A x \in node.watchers :
              x.id = monitor.fileWatcher /\ x.filePath = monitor.currentFile
        /\ \A x \in node.checkIntervals :
              x.id = monitor.checkInterval /\ x.filePath = monitor.currentFile
        /\ \A id \in node.statusIntervals : id = monitor.statusInterval

\* the change-processings pending (debounce timeouts) and running
\* (processFileChange under way)
Processings ==
    node.timeouts
        + Cardinality({i \in 1..Len(node.microtasks) :
                          /\ node.microtasks[i].fn \in {"handleFileChange", "checkFileManually"}
                          /\ node.microtasks[i].pc # "prechecked"})

\* C26: at most one change-processing is pending or running at any time,
\* whatever stopWatching and startWatching calls come between.
C26_OneProcessingAtATime == Processings <= 1

NoneOf(events, names) == \A i \in 1..Len(events) : events[i] \notin names

\* C27: once stopWatching() has completed and until startWatching is called,
\* the monitor emits no fileChanged, processError or watchStopped of its own.
C27_SilentAfterStop ==
    [][(observed.stopCompleted /\ observed'.call = <<>>)
          => NoneOf(observed'.emitted, {"fileChanged", "processError", "watchStopped"})]_vars

\* C28: fileChanged is emitted only after checkFileChanged saw a newer
\* modification time and another hash than the recorded ones and after
\* updateFileState recorded the file, and only for a file written since it
\* was last recorded: no write of the file gives two fileChanged events.
C28_FileChangedOncePerChange ==
    \A i \in 1..Len(node.microtasks) :
        node.microtasks[i].pc = "updated" =>
            /\ node.microtasks[i].newerAndDiffers
            /\ node.microtasks[i].afterWrite

\* C28 witness: a fileChanged was emitted for the one write there was, the
\* record holding the time and hash of the file.
C28_Witness ==
    /\ observed.emitted = <<"fileChanged">>
    /\ ~observed.written
    /\ monitor.lastModified = node.files[Edited].mtime
    /\ monitor.lastHash = node.files[Edited].hash
    /\ monitor.currentFile = Edited

\* C29: startWatching(path) for a path that is not there emits watchError
\* and nothing else, starts nothing and leaves the monitor, its watcher and
\* its timers as they were.
C29_MissingPathChangesNothing ==
    [][(/\ observed'.call # <<>>
        /\ observed'.call[1] = "startWatching"
        /\ ~existsSync(node, observed'.call[2]))
          => /\ monitor' = monitor
             /\ node' = node
             /\ observed'.emitted = <<"watchError">>]_vars

\* C29 witness: startWatching of the missing file has just failed while the
\* other file is watched.
C29_Witness ==
    /\ observed.call = <<"startWatching", Edited>>
    /\ observed.emitted = <<"watchError">>
    /\ Watched
    /\ monitor.currentFile # Edited
    /\ node.watchers # {}

\* C30: when no call of the FileMonitor is under way, currentFile is set
\* exactly when the monitor holds an fs watcher.
C30_CurrentFileIffWatching ==
    Quiet => ((monitor.currentFile # 0) <=> (monitor.fileWatcher # 0))

\* C31: a switchMonitorType(newType) call made while a file is monitored
\* that resolves leaves currentType = newType and currentFilePath = the
\* path monitored before the call; a call made while no file is monitored
\* rejects and changes no state.
C31_SwitchSetsTypeAndPath ==
    [][\A k \in 1..Len(unified'.settled) :
          LET s == unified'.settled[k]
          IN s.call.fn = "switchMonitorType" =>
                IF s.resolved
                THEN /\ s.call.filePath # 0
                     /\ unified'.currentType = s.call.type
                     /\ unified'.currentFilePath = s.call.filePath
                ELSE s.call.pc = "called" =>
                        /\ unified'.activeMonitors = unified.activeMonitors
                        /\ unified'.currentType = unified.currentType
                        /\ unified'.currentFilePath = unified.currentFilePath
                        /\ unified'.calls = unified.calls]_vars

\* C31 for the types the monitor supports: a switchMonitorType(newType)
\* call with newType one of electron, server and polling, made while a file
\* is monitored, that resolves leaves currentType = newType and
\* currentFilePath = the path monitored before the call; a call made while
\* no file is monitored rejects and changes no state.
C31_SwitchToSupportedType ==
    [][\A k \in 1..Len(unified'.settled) :
          LET s == unified'.settled[k]
          IN s.call.fn = "switchMonitorType" /\ s.call.type \in MonitorTypes =>
                IF s.resolved
                THEN /\ s.call.filePath # 0
                     /\ unified'.currentType = s.call.type
                     /\ unified'.currentFilePath = s.call.filePath
                ELSE s.call.pc = "called" =>
                        /\ unified'.activeMonitors = unified.activeMonitors
                        /\ unified'.currentType = unified.currentType
                        /\ unified'.currentFilePath = unified.currentFilePath
                        /\ unified'.calls = unified.calls]_vars

\* a switch to the polling type has resolved
C31_Witness ==
    \E k \in 1..Len(unified.settled) :
        /\ unified.settled[k].call.fn = "switchMonitorType"
        /\ unified.settled[k].call.type = "polling"
        /\ unified.settled[k].resolved

\* C32: when the start step of a startWatching call has failed, monitorError
\* is dispatched, the call throws, no monitor is registered and currentType
\* and currentFilePath are both null; and when monitorStarted is dispatched
\* the monitor is registered and currentType and currentFilePath are set to
\* it.  (That the monitorStopped of a call comes before its monitorStarted
\* is the order of the statements of startWatching.)
C32_FailedStartLeavesNothing ==
    /\ \A k \in 1..Len(unified.settled) :
          unified.settled[k].call.pc = "starting" /\ ~unified.settled[k].resolved =>
              /\ unified.dispatched = <<"monitorError">>
              /\ unified.activeMonitors = {}
              /\ unified.currentType = "null"
              /\ unified.currentFilePath = 0
    /\ unified.dispatched = <<"monitorStarted">> =>
          /\ unified.currentType # "null"
          /\ [type |-> unified.currentType, filePath |-> unified.currentFilePath]
                \in unified.activeMonitors

\* C33: whenever the open-file handler answers success: false, main's
\* currentFilePath and the paths watched are what they were when the
\* handler was called.  (The handler never rejects: its whole body is in a
\* try whose catch returns the answer.)
C33_FailedOpenChangesNothing ==
    \A k \in 1..Len(observed.returned) :
        ~observed.returned[k].success =>
            /\ node.currentFilePath = observed.returned[k].before.currentFilePath
            /\ {x.filePath : x \in node.watchers} = observed.returned[k].before.watched

\* the step emitted fileChanged with the window there, and main sent one
\* file-updated and set the timeout of its force-refresh if the file parses,
\* and one file-update-error and set no timeout if it does not
FileChangedAnswered ==
    (~NoneOf(observed'.emitted, {"fileChanged"}) /\ node'.windowOpen) =>
        IF existsSync(node', Head(node.microtasks).filePath)
        THEN observed'.sent = <<"file-updated">> /\ node'.refreshes = node.refreshes + 1
        ELSE observed'.sent = <<"file-update-error">> /\ node'.refreshes = node.refreshes

\* C34: for a fileChanged emitted while the window is there, one
\* file-updated is sent if the file parses, and else one file-update-error
\* and nothing more; when the timeout set with a file-updated comes due,
\* one force-refresh is sent; and nothing is sent when the window is closed.
C34_UpdateThenRefresh ==
    [][/\ FileChangedAnswered
       /\ node'.refreshes < node.refreshes => observed'.sent = <<"force-refresh">>
       /\ ~node'.windowOpen => observed'.sent = <<>>]_vars

\* C34 with the window closed meanwhile: when the timeout set with a
\* file-updated comes due, one force-refresh is sent if the window is
\* still there, and none if it was closed since.
C34_RefreshIfWindowThere ==
    [][/\ FileChangedAnswered
       /\ node'.refreshes < node.refreshes =>
              observed'.sent = IF node.windowOpen THEN <<"force-refresh">> ELSE <<>>
       /\ NoneOf(observed'.sent, {"force-refresh"}) \/ node'.refreshes < node.refreshes
       /\ ~node'.windowOpen => observed'.sent = <<>>]_vars

\* a force-refresh has just followed a file-updated
C34_Witness ==
    /\ observed.sent = <<"force-refresh">>
    /\ observed.shown # 0
    /\ node.refreshes = 0

\* C35: whenever a document is loaded, currentFrame is an index of one of
\* its frames.
C35_CurrentFrameInRange ==
    aseData.loaded => 0 <= currentFrame /\ currentFrame < Len(aseData.frames)

\* C35 for documents that have frames: whenever a document with at least
\* one frame is loaded, currentFrame is an index of one of its frames; with
\* a document of no frames currentFrame is 0.
C35_CurrentFrameInRangeOrZero ==
    aseData.loaded =>
        IF Len(aseData.frames) = 0 THEN currentFrame = 0
        ELSE 0 <= currentFrame /\ currentFrame < Len(aseData.frames)

\* updateFileData has just given a document with fewer frames, but not
\* none, and set the frame index to 0
C35_Witness ==
    /\ observed.call # <<>>
    /\ observed.call[1] = "updateFileData"
    /\ observed.call[2]
    /\ Len(aseData.frames) > 0

\* the step was a call of nextFrame() or prevFrame()
Stepped(fn) == observed'.call # observed.call /\ observed'.call[1] = fn

\* C36: a nextFrame() or prevFrame() that returns true has moved
\* currentFrame by one in its direction and rendered that frame; one that
\* returns false has left currentFrame as it was.
C36_TrueMeansMovedAndRendered ==
    [][/\ Stepped("nextFrame") =>
              IF observed'.call[2]
              THEN currentFrame' = currentFrame + 1 /\ render'.pc = "cels"
              ELSE currentFrame' = currentFrame
       /\ Stepped("prevFrame") =>
              IF observed'.call[2]
              THEN currentFrame' = currentFrame - 1 /\ render'.pc = "cels"
              ELSE currentFrame' = currentFrame]_vars

====
